---- MODULE Spec2Model ----
(***************************************************************************)
(* A model of the SolomonSays retrieval-augmented answer pipeline:         *)
(*   backend/modules/query_processing.py    (QueryProcessingModule)        *)
(*   backend/modules/knowledge_base.py      (KnowledgeBaseModule)          *)
(*   backend/modules/response_generation.py (ResponseGenerationModule)     *)
(*   backend/modules/rag_system.py          (RAGSystem)                    *)
(*   backend/modules/content_ingestion.py   (ContentIngestionModule)       *)
(*   backend/app.py                         (the API process)              *)
(*                                                                         *)
(* Text is a sequence of one-character strings.  A Python float is a      *)
(* rational <<numerator, denominator>> with a positive denominator.  A     *)
(* Python / JSON value of varying type is a tagged record [t, v].          *)
(***************************************************************************)
EXTENDS Integers, Sequences, FiniteSets, TLC

VARIABLES
    \* KnowledgeBaseModule
    vector_store,        \* self.vector_store: "None" marker or the indexed chunks
    metadata,            \* self.metadata: document_count, chunk_count, sources
    disk,                \* the data directory: saved index and metadata.json
    \* RAGSystem.process_query: the request in progress
    pc,                  \* position in process_query
    query,               \* argument query
    chat_history,        \* argument chat_history
    num_results,         \* argument num_results
    processed_query,     \* local processed_query
    search_queries,      \* local search_queries
    qi,                  \* index of the next search query of the for loop
    all_documents,       \* local all_documents
    unique_documents,    \* local unique_documents
    result,              \* what process_query gave back to its caller
    \* observation of the calls process_query made (never read by the program)
    trace,               \* retrieval calls issued, the call to generate_response
    \* direct calls of the module's pure public functions
    fn_pc, fn_args, fn_ret,
    \* the API process: requests in flight and the event loop
    loop,                \* the request whose handler is running, 0 when none
    handlers,            \* per request: kind, position in its handler, locals
    rag_system,          \* the global rag_system of app.py: 0 for None, or the instance
    registry             \* ContentIngestionModule.registry["sources"]

kb_vars  == <<vector_store, metadata, disk>>
req_vars == <<pc, query, chat_history, num_results, processed_query,
              search_queries, qi, all_documents, unique_documents, result, trace>>
fn_vars  == <<fn_pc, fn_args, fn_ret>>
obj_vars == <<rag_system, registry>>
app_vars == <<loop, handlers, obj_vars>>
vars     == <<kb_vars, req_vars, fn_vars, app_vars>>

(***************************************************************************)
(* Bounds of the model.                                                    *)
(***************************************************************************)
MaxQueryWords == 3      \* words of a raw query given to the expander directly
MaxMaxQueries == 4      \* largest max_queries tried
MaxBudget     == 2      \* largest num_results tried
MaxChunks     == 2      \* chunks the vector store holds at most

(***************************************************************************)
(* Generic helpers.                                                        *)
(***************************************************************************)
Min(a, b) == IF a <= b THEN a ELSE b
Max(a, b) == IF a >= b THEN a ELSE b

Take(s, n) == SubSeq(s, 1, Min(Max(n, 0), Len(s)))

\* s[:n + 1]: a slice that runs one position too far
PySliceThrough(s, n) == IF n >= 0 THEN Take(s, n + 1) ELSE Take(s, Len(s) + n + 1)

\* Python's s[:n], also for a negative n (which counts from the end).
PySliceTo(s, n) == IF n >= 0 THEN Take(s, n) ELSE Take(s, Len(s) + n)

\* a float as a rational
RatLeq(a, b) == a[1] * b[2] <= b[1] * a[2]
RatEq(a, b) == a[1] * b[2] = b[1] * a[2]
RatMin(a, b) == IF RatLeq(a, b) THEN a ELSE b
Zero == <<0, 1>>
One  == <<1, 1>>

(***************************************************************************)
(* Characters and text.                                                    *)
(***************************************************************************)
LowerAlphabet == <<"a","b","c","d","e","f","g","h","i","j","k","l","m",
                   "n","o","p","q","r","s","t","u","v","w","x","y","z">>
UpperAlphabet == <<"A","B","C","D","E","F","G","H","I","J","K","L","M",
                   "N","O","P","Q","R","S","T","U","V","W","X","Y","Z">>
Digits == {"0","1","2","3","4","5","6","7","8","9"}

IsSpace(c) == c \in {" ", "\t", "\n"}
IsWordChar(c) ==
    \/ \E i \in 1..26 : c = LowerAlphabet[i] \/ c = UpperAlphabet[i]
    \/ c \in Digits
    \/ c = "_"

LowerChar(c) ==
    IF \E i \in 1..26 : c = UpperAlphabet[i]
    THEN LowerAlphabet[CHOOSE i \in 1..26 : c = UpperAlphabet[i]]
    ELSE c

\* str.lower()
StrLower(s) == [i \in 1..Len(s) |-> LowerChar(s[i])]

\* re.sub(r'\s+', ' ', s): every maximal run of whitespace becomes one space
CollapseWhitespace(s) ==
    LET f[i \in 0..Len(s)] ==
            IF i = 0 THEN <<>>
            ELSE IF ~IsSpace(s[i]) THEN Append(f[i-1], s[i])
            ELSE IF i = 1 \/ ~IsSpace(s[i-1]) THEN Append(f[i-1], " ")
            ELSE f[i-1]
    IN  f[Len(s)]

\* str.strip()
RECURSIVE StrStrip(_)
StrStrip(s) ==
    IF s = <<>> THEN s
    ELSE IF IsSpace(Head(s)) THEN StrStrip(Tail(s))
    ELSE IF IsSpace(s[Len(s)]) THEN StrStrip(SubSeq(s, 1, Len(s) - 1))
    ELSE s

\* ' '.join(words)
RECURSIVE JoinSpace(_)
JoinSpace(words) ==
    IF words = <<>> THEN <<>>
    ELSE IF Len(words) = 1 THEN words[1]
    ELSE words[1] \o <<" ">> \o JoinSpace(Tail(words))

\* len(s.split()): the number of maximal runs of non-whitespace
WordCount(s) ==
    Cardinality({i \in 1..Len(s) :
                    ~IsSpace(s[i]) /\ (i = 1 \/ IsSpace(s[i-1]))})

(***************************************************************************)
(* QueryProcessingModule.                                                  *)
(***************************************************************************)
\* self.financial_topics: topic -> keywords, in declaration order.  The
\* module takes the taxonomy from a file or from its default; the model is
\* configured with these entries of the default taxonomy.
FinancialTopics == <<
    [topic    |-> <<"b","u","d","g","e","t","i","n","g">>,
     keywords |-> << <<"b","u","d","g","e","t">>,
                     <<"c","a","s","h"," ","f","l","o","w">> >>],
    [topic    |-> <<"s","a","v","i","n","g">>,
     keywords |-> << <<"s","a","v","e">>,
                     <<"s","a","v","e"," ","m","o","n","e","y">> >>],
    [topic    |-> <<"d","e","b","t">>,
     keywords |-> << <<"d","e","b","t">>,
                     <<"l","o","a","n">> >>] >>

\* _clean_query
CleanQuery(q) ==
    LET lowered   == StrLower(q)
        collapsed == StrStrip(CollapseWhitespace(lowered))
    IN  SelectSeq(collapsed, LAMBDA c : IsWordChar(c) \/ IsSpace(c) \/ c = "?")

\* a regex \b at the gap after position i (0..Len(s)) of s
WordBoundary(s, i) ==
    LET w(j) == j >= 1 /\ j <= Len(s) /\ IsWordChar(s[j])
    IN  w(i) # w(i + 1)

\* r'\b' + re.escape(keyword) + r'\b' matches s starting at position p
KeywordAt(s, keyword, p) ==
    /\ p + Len(keyword) - 1 <= Len(s)
    /\ SubSeq(s, p, p + Len(keyword) - 1) = keyword
    /\ WordBoundary(s, p - 1)
    /\ WordBoundary(s, p + Len(keyword) - 1)

\* len(re.findall(pattern, s)): non-overlapping matches, left to right
RECURSIVE CountMatchesFrom(_, _, _)
CountMatchesFrom(s, keyword, p) ==
    IF p + Len(keyword) - 1 > Len(s) THEN 0
    ELSE IF KeywordAt(s, keyword, p)
         THEN 1 + CountMatchesFrom(s, keyword, p + Len(keyword))
         ELSE CountMatchesFrom(s, keyword, p + 1)
CountMatches(s, keyword) == CountMatchesFrom(s, keyword, 1)

\* a match score that falls as the keyword gets longer
MatchScoreInverse(s, keyword) == CountMatches(s, keyword) * (6 - WordCount(keyword))

\* len(matches) * (0.5 + 0.5 * len(keyword.split()) / 3), in sixths
MatchScoreSixths(s, keyword) == CountMatches(s, keyword) * (3 + WordCount(keyword))

\* the inner loop of _extract_topics over one topic's keywords
RECURSIVE TopicScoreSixths(_, _)
TopicScoreSixths(s, keywords) ==
    IF keywords = <<>> THEN 0
    ELSE MatchScoreSixths(s, Head(keywords)) + TopicScoreSixths(s, Tail(keywords))

MatchedKeywords(s, keywords) ==
    SelectSeq(keywords, LAMBDA k : CountMatches(s, k) > 0)

\* sorted(topics.items(), key=score, reverse=True): stable
RECURSIVE SortTopics(_)
InsertTopic(sorted, e) ==
    LET ahead == Cardinality({i \in 1..Len(sorted) : RatLeq(e.score, sorted[i].score)})
    IN  SubSeq(sorted, 1, ahead) \o <<e>> \o SubSeq(sorted, ahead + 1, Len(sorted))
SortTopics(entries) ==
    IF entries = <<>> THEN <<>>
    ELSE InsertTopic(SortTopics(SubSeq(entries, 1, Len(entries) - 1)),
                     entries[Len(entries)])

\* _extract_topics: the topics with a match, each with its capped score and
\* its matched keywords, ordered by descending score
ExtractTopics(s) ==
    LET entry(i) ==
            [topic            |-> FinancialTopics[i].topic,
             score            |-> RatMin(<<TopicScoreSixths(s, FinancialTopics[i].keywords), 6>>,
                                         <<6, 6>>),
             matched_keywords |-> MatchedKeywords(s, FinancialTopics[i].keywords)]
        f[i \in 0..Len(FinancialTopics)] ==
            IF i = 0 THEN <<>>
            ELSE IF TopicScoreSixths(s, FinancialTopics[i].keywords) > 0
                 THEN Append(f[i-1], entry(i))
                 ELSE f[i-1]
    IN  SortTopics(f[Len(FinancialTopics)])

\* sub in s, for texts
Contains(s, sub) ==
    \E i \in 0..(Len(s) - Len(sub)) : SubSeq(s, i + 1, i + Len(sub)) = sub

\* s.startswith(prefix)
StartsWith(s, prefix) ==
    Len(prefix) <= Len(s) /\ SubSeq(s, 1, Len(prefix)) = prefix

\* _is_question
QuestionWords == << <<"w","h","a","t">>,
                 <<"h","o","w">>,
                 <<"w","h","y">>,
                 <<"w","h","e","n">>,
                 <<"w","h","e","r","e">>,
                 <<"w","h","o">>,
                 <<"w","h","i","c","h">>,
                 <<"c","a","n">>,
                 <<"s","h","o","u","l","d">>,
                 <<"c","o","u","l","d">>,
                 <<"w","o","u","l","d">> >>

IsQuestion(s) ==
    \/ \E i \in 1..Len(s) : s[i] = "?"
    \/ \E w \in 1..Len(QuestionWords) : StartsWith(s, QuestionWords[w] \o <<" ">>)

(***************************************************************************)
(* _extract_numbers.  A match is <<first, last>>, the positions of its     *)
(* first and last character.                                               *)
(***************************************************************************)
IsDigit(c) == c \in Digits
DigitAt(s, p) == p >= 1 /\ p <= Len(s) /\ IsDigit(s[p])

\* \d+ from the digit at p, greedy: the last position of the run
RECURSIVE DigitsEnd(_, _)
DigitsEnd(s, p) == IF DigitAt(s, p + 1) THEN DigitsEnd(s, p + 1) ELSE p

\* (?:,\d{3})* after position e, greedy: the ends after 0, 1, ... groups,
\* the longest last
RECURSIVE GroupEnds(_, _)
GroupEnds(s, e) ==
    IF e + 4 <= Len(s) /\ s[e + 1] = "," /\ DigitAt(s, e + 2)
          /\ DigitAt(s, e + 3) /\ DigitAt(s, e + 4)
    THEN <<e>> \o GroupEnds(s, e + 4)
    ELSE <<e>>

\* (?:\.\d+)? after position e, greedy: the end with the fraction, or e
FractionEnd(s, e) ==
    IF e + 2 <= Len(s) /\ s[e + 1] = "." /\ DigitAt(s, e + 2)
    THEN DigitsEnd(s, e + 2)
    ELSE e

\* \d+(?:,\d{3})*(?:\.\d+)? from the digit at p with nothing required after
\* it: the greedy end
NumberEnd(s, p) ==
    LET ends == GroupEnds(s, DigitsEnd(s, p))
    IN  FractionEnd(s, ends[Len(ends)])

\* \s* from position p: the first position that is not whitespace
RECURSIVE SkipSpace(_, _)
SkipSpace(s, p) == IF p <= Len(s) /\ IsSpace(s[p]) THEN SkipSpace(s, p + 1) ELSE p

\* r'\$\s*(\d+(?:,\d{3})*(?:\.\d+)?)' at p: [found, first, last, group]
DollarAt(s, p) ==
    LET d == SkipSpace(s, p + 1)
    IN  IF s[p] = "$" /\ DigitAt(s, d)
        THEN [found |-> TRUE, first |-> p, last |-> NumberEnd(s, d), group |-> d]
        ELSE [found |-> FALSE, first |-> p, last |-> p, group |-> p]

\* r'(\d+(?:\.\d+)?)\s*%' at p: a shorter \d+ or fraction is followed by a
\* digit, so only the greedy number can be followed by \s*%
PercentAt(s, p) ==
    LET e == IF DigitAt(s, p) THEN FractionEnd(s, DigitsEnd(s, p)) ELSE p
        q == SkipSpace(s, e + 1)
    IN  IF DigitAt(s, p) /\ q <= Len(s) /\ s[q] = "%"
        THEN [found |-> TRUE, first |-> p, last |-> q, group |-> p, group_last |-> e]
        ELSE [found |-> FALSE, first |-> p, last |-> p, group |-> p, group_last |-> p]

\* r'\b(\d+(?:,\d{3})*(?:\.\d+)?)\b' at p: the ends the regex tries, in its
\* order (most groups first, with the fraction before without), and the first
\* of them that is followed by a word boundary
GenericEnds(s, p) ==
    LET ends == GroupEnds(s, DigitsEnd(s, p))
        f[k \in 0..Len(ends)] ==
            IF k = 0 THEN <<>>
            ELSE (IF FractionEnd(s, ends[k]) # ends[k]
                  THEN <<FractionEnd(s, ends[k]), ends[k]>> ELSE <<ends[k]>>) \o f[k - 1]
    IN  f[Len(ends)]

GenericAt(s, p) ==
    LET tried == IF DigitAt(s, p) /\ WordBoundary(s, p - 1) THEN GenericEnds(s, p) ELSE <<>>
        good  == SelectSeq(tried, LAMBDA e : WordBoundary(s, e))
    IN  IF good # <<>>
        THEN [found |-> TRUE, first |-> p, last |-> good[1], group |-> p]
        ELSE [found |-> FALSE, first |-> p, last |-> p, group |-> p]

\* the match at p of one of the three patterns of _extract_numbers
MatchAt(pattern, s, p) ==
    CASE pattern = "dollar"  -> DollarAt(s, p)
      [] pattern = "percent" -> PercentAt(s, p)
      [] OTHER               -> GenericAt(s, p)

\* re.finditer(pattern, s): the matches from position p on, left to right,
\* not overlapping
RECURSIVE FindIter(_, _, _)
FindIter(pattern, s, p) ==
    IF p > Len(s) THEN <<>>
    ELSE LET m == MatchAt(pattern, s, p)
         IN  IF m.found THEN <<m>> \o FindIter(pattern, s, m.last + 1)
             ELSE FindIter(pattern, s, p + 1)

\* float(value_str) of digits with an optional fraction, commas removed: the
\* rational <<numerator, denominator>>
DigitChars == <<"0","1","2","3","4","5","6","7","8","9">>
DigitValue(c) == (CHOOSE i \in 1..Len(DigitChars) : DigitChars[i] = c) - 1

RECURSIVE FloatOf(_, _, _)
FloatOf(chars, num, den) ==
    IF chars = <<>> THEN <<num, IF den = 0 THEN 1 ELSE den>>
    ELSE IF Head(chars) = "," THEN FloatOf(Tail(chars), num, den)
    ELSE IF Head(chars) = "." THEN FloatOf(Tail(chars), num, 1)
    ELSE FloatOf(Tail(chars), num * 10 + DigitValue(Head(chars)),
                 IF den = 0 THEN 0 ELSE den * 10)

ParseFloat(chars) == FloatOf(chars, 0, 0)

\* the characters of context taken on each side of a match
ContextWidth == 20

\* query[max(0, start - 20):min(len(query), end + 20)]
NumberContext(s, m) ==
    SubSeq(s, Max(1, m.first - ContextWidth), Min(Len(s), m.last + ContextWidth))

NumberEntry(s, m, value_last, type) ==
    LET entry == [value    |-> ParseFloat(SubSeq(s, m.group, value_last)),
                  type     |-> type,
                  original |-> SubSeq(s, m.first, m.last),
                  context  |-> NumberContext(s, m)]
    IN  IF type = "currency" THEN entry @@ [currency |-> "USD"] ELSE entry

\* a third loop that skips nothing
RECURSIVE AddAllGenericNumbers(_, _, _)
AddAllGenericNumbers(s, numbers, matches) ==
    IF matches = <<>> THEN numbers
    ELSE AddAllGenericNumbers(s,
                              Append(numbers, NumberEntry(s, Head(matches),
                                                          Head(matches).last, "number")),
                              Tail(matches))

\* the third loop: a match whose text is the 'original' of an entry already
\* in the list is skipped
RECURSIVE AddGenericNumbers(_, _, _)
AddGenericNumbers(s, numbers, matches) ==
    IF matches = <<>> THEN numbers
    ELSE LET m == Head(matches)
             original == SubSeq(s, m.first, m.last)
         IN  AddGenericNumbers(
                 s,
                 IF \E i \in 1..Len(numbers) : numbers[i].original = original
                 THEN numbers
                 ELSE Append(numbers, NumberEntry(s, m, m.last, "number")),
                 Tail(matches))

\* _extract_numbers(query): currency, then percentage, then other numbers
ExtractNumbers(s) ==
    LET dollars  == FindIter("dollar", s, 1)
        percents == FindIter("percent", s, 1)
        generic  == FindIter("number", s, 1)
        currency == [i \in 1..Len(dollars) |->
                        NumberEntry(s, dollars[i], dollars[i].last, "currency")]
        percentage == [i \in 1..Len(percents) |->
                        NumberEntry(s, percents[i], percents[i].group_last, "percentage")]
    IN  AddGenericNumbers(s, currency \o percentage, generic)

\* _determine_complexity
ComparisonIndicators == << <<"c","o","m","p","a","r","e">>,
                        <<"d","i","f","f","e","r","e","n","c","e">>,
                        <<"v","e","r","s","u","s">>,
                        <<"v","s">>,
                        <<"b","e","t","t","e","r">>,
                        <<"w","o","r","s","e">>,
                        <<"p","r","o","s"," ","a","n","d"," ","c","o","n","s">> >>
MultiPartIndicators == << <<" ","a","n","d"," ">>,
                       <<" ","o","r"," ">>,
                       <<" ","a","l","s","o"," ">>,
                       <<" ","a","d","d","i","t","i","o","n","a","l","l","y"," ">>,
                       <<";"," ">>,
                       <<"f","i","r","s","t">>,
                       <<"s","e","c","o","n","d">>,
                       <<"f","i","n","a","l","l","y">> >>

\* financial_term_count: the (topic, keyword) pairs whose keyword stands in
\* the query between spaces
FinancialTermCount(s) ==
    LET pairs == UNION {{<<t, k>> : k \in 1..Len(FinancialTopics[t].keywords)} :
                           t \in 1..Len(FinancialTopics)}
    IN  Cardinality({tk \in pairs :
            Contains(<<" ">> \o s \o <<" ">>,
                     <<" ">> \o FinancialTopics[tk[1]].keywords[tk[2]] \o <<" ">>)})

HasComparison(s) ==
    \E i \in 1..Len(ComparisonIndicators) : Contains(s, ComparisonIndicators[i])

HasMultiPart(s) ==
    \E i \in 1..Len(MultiPartIndicators) : Contains(s, MultiPartIndicators[i])

\* a decision that only calls a query of at least one word simple
DetermineComplexityNonEmpty(s) ==
    IF WordCount(s) >= 1 /\ WordCount(s) <= 10 /\ FinancialTermCount(s) <= 1
          /\ ~HasComparison(s) /\ ~HasMultiPart(s)
    THEN "simple"
    ELSE IF WordCount(s) > 25 \/ FinancialTermCount(s) > 3
               \/ (HasComparison(s) /\ HasMultiPart(s))
    THEN "complex"
    ELSE "moderate"

\* a decision where only a comparison together with a multi-part connective
\* keeps a short query from being simple
DetermineComplexityBoth(s) ==
    IF WordCount(s) <= 10 /\ FinancialTermCount(s) <= 1
          /\ ~(HasComparison(s) /\ HasMultiPart(s))
    THEN "simple"
    ELSE IF WordCount(s) > 25 \/ FinancialTermCount(s) > 3
               \/ (HasComparison(s) /\ HasMultiPart(s))
    THEN "complex"
    ELSE "moderate"

DetermineComplexity(s) ==
    LET word_count == WordCount(s)
        financial_term_count == FinancialTermCount(s)
        has_comparison == HasComparison(s)
        has_multi_part == HasMultiPart(s)
    IN  IF word_count <= 10 /\ financial_term_count <= 1
              /\ ~has_comparison /\ ~has_multi_part
        THEN "simple"
        ELSE IF word_count > 25 \/ financial_term_count > 3
                   \/ (has_comparison /\ has_multi_part)
        THEN "complex"
        ELSE "moderate"

\* QueryProcessingModule.process_query
AnalyzeQuery(q) ==
    LET cleaned_query == CleanQuery(q)
    IN  [original_query |-> q,
         cleaned_query  |-> cleaned_query,
         topics         |-> ExtractTopics(cleaned_query),
         is_question    |-> IsQuestion(cleaned_query),
         numbers        |-> ExtractNumbers(cleaned_query),
         complexity     |-> DetermineComplexity(cleaned_query)]

\* one topic-focused query of generate_search_queries
TopicQuery(entry, cleaned_query) ==
    entry.topic \o <<" ">> \o JoinSpace(Take(entry.matched_keywords, 2))
                \o <<" ">> \o cleaned_query

\* generate_search_queries without its final slice
GenerateSearchQueriesUnlimited(pq, max_queries) ==
    LET top_topics == Take(pq.topics, 2)
        f[i \in 0..Len(top_topics)] ==
            IF i = 0 THEN << pq.cleaned_query >>
            ELSE IF top_topics[i].matched_keywords # <<>>
                 THEN Append(f[i-1], TopicQuery(top_topics[i], pq.cleaned_query))
                 ELSE f[i-1]
    IN  f[Len(top_topics)]

\* generate_search_queries(processed_query, max_queries)
GenerateSearchQueries(pq, max_queries) ==
    LET top_topics == Take(pq.topics, 2)
        f[i \in 0..Len(top_topics)] ==
            IF i = 0 THEN << pq.cleaned_query >>
            ELSE IF top_topics[i].matched_keywords # <<>>
                 THEN Append(f[i-1], TopicQuery(top_topics[i], pq.cleaned_query))
                 ELSE f[i-1]
    IN  PySliceTo(f[Len(top_topics)], max_queries)

\* the default of max_queries
DefaultMaxQueries == 3


(***************************************************************************)
(* Passages.  The text of a passage is a code: 0 is the empty text, every  *)
(* other code a distinct non-empty text.  A title is [text, n] so that a   *)
(* stored title and the default title f"Document {i+1}" have one shape.    *)
(***************************************************************************)
EmptyContent == 0
LongContent  == 4       \* a text longer than chunk_size: splits in two chunks

Title(text) == [text |-> text, n |-> 0]
DefaultTitle(i) == [text |-> "Document", n |-> i + 1]

\* knowledge items as they are handed to add_financial_knowledge
ItemA    == [title |-> "A",  content |-> 1, source |-> "s1", url |-> "",
             source_type |-> "unknown"]
ItemB    == [title |-> "B",  content |-> 2, source |-> "s1", url |-> "u2",
             source_type |-> "unknown"]
ItemA2   == [title |-> "A2", content |-> 1, source |-> "s2", url |-> "",
             source_type |-> "unknown"]
ItemC    == [title |-> "C",  content |-> 3, source |-> "s2", url |-> "",
             source_type |-> "pdf"]
ItemLong == [title |-> "L",  content |-> LongContent, source |-> "s3", url |-> "",
             source_type |-> "url"]
ItemEmpty == [title |-> "E", content |-> EmptyContent, source |-> "s3", url |-> "",
              source_type |-> "unknown"]

\* the batches an ingest call may bring
Batches == << <<ItemA, ItemEmpty, ItemB>>, <<ItemA2>>, <<ItemC>>,
              <<ItemLong>>, <<ItemEmpty>>, << >> >>

(***************************************************************************)
(* KnowledgeBaseModule.                                                    *)
(***************************************************************************)
\* _load_metadata with no metadata file: the new metadata object
NewMetadata == [document_count |-> 0, chunk_count |-> 0, sources |-> <<>>]

\* self.text_splitter.split_documents: every chunk carries the metadata of
\* its document; a text within chunk_size is one chunk, the long text two,
\* the empty text none
SplitText(content) ==
    IF content = EmptyContent THEN <<>>
    ELSE IF content = LongContent THEN <<LongContent + 1, LongContent + 2>>
    ELSE <<content>>

RECURSIVE SplitDocuments(_)
SplitDocuments(documents) ==
    IF documents = <<>> THEN <<>>
    ELSE LET d == Head(documents)
             parts == SplitText(d.page_content)
         IN  [i \in 1..Len(parts) |-> [page_content |-> parts[i], metadata |-> d.metadata]]
             \o SplitDocuments(Tail(documents))

\* the loop of add_documents that appends the sources not yet recorded
RECURSIVE AddSources(_, _)
AddSources(sources, documents) ==
    IF documents = <<>> THEN sources
    ELSE LET src == Head(documents).metadata.source
         IN  AddSources(IF \E i \in 1..Len(sources) : sources[i] = src
                        THEN sources ELSE Append(sources, src),
                        Tail(documents))

\* a source that is a JSON list rather than a string: set.add(source) throws
\* TypeError (unhashable type)
ListSource == "['s4']"

\* the parts of add_documents, in the order it runs them.  FAISS cannot
\* build an index from no chunks: from_documents throws.
IndexThrows(store, documents) ==
    ~store.initialized /\ SplitDocuments(documents) = <<>>

\* FAISS.from_documents or vector_store.add_documents
IndexDocuments(store, documents) ==
    [initialized |-> TRUE, docs |-> store.docs \o SplitDocuments(documents)]

\* self.metadata["document_count"] += ..., self.metadata["chunk_count"] += ...
CountDocuments(md, documents) ==
    [md EXCEPT !.document_count = @ + Len(documents),
               !.chunk_count    = @ + Len(SplitDocuments(documents))]

\* sources.add(source) on a source that cannot be put in a set
SourcesThrow(documents) ==
    \E i \in 1..Len(documents) : documents[i].metadata.source = ListSource

\* add_documents(documents): the knowledge base afterwards, and whether the
\* two saves were reached.  When the index cannot be built the except clause
\* logs it and nothing is changed.  A source that cannot be put in a set
\* throws after the index and the counters were updated: the source list
\* and the saves are skipped.
AddDocuments(kb, documents) ==
    IF IndexThrows(kb.vector_store, documents)
    THEN [vector_store |-> kb.vector_store, metadata |-> kb.metadata,
          saved |-> FALSE]
    ELSE IF SourcesThrow(documents)
    THEN [vector_store |-> IndexDocuments(kb.vector_store, documents),
          metadata |-> CountDocuments(kb.metadata, documents),
          saved |-> FALSE]
    ELSE [vector_store |-> IndexDocuments(kb.vector_store, documents),
          metadata |-> [CountDocuments(kb.metadata, documents) EXCEPT
                           !.sources = AddSources(@, documents)],
          saved |-> TRUE]

\* the Documents add_texts builds: zip(texts, metadatas)
TextDocuments(texts, metadatas) ==
    [i \in 1..Min(Len(texts), Len(metadatas)) |->
        [page_content |-> texts[i], metadata |-> metadatas[i]]]

\* add_texts(texts, metadatas)
AddTexts(kb, texts, metadatas) == AddDocuments(kb, TextDocuments(texts, metadatas))

\* item.get("content", "")
Content(item) == IF "content" \in DOMAIN item THEN item.content ELSE EmptyContent

\* the loop of add_financial_knowledge: the items it keeps, their texts and
\* the metadata it builds for them
KeptItems(knowledge_items) ==
    SelectSeq(knowledge_items, LAMBDA item : Content(item) # EmptyContent)

KnowledgeTexts(knowledge_items) ==
    [i \in 1..Len(KeptItems(knowledge_items)) |-> KeptItems(knowledge_items)[i].content]

KnowledgeMetadatas(knowledge_items) ==
    LET kept == KeptItems(knowledge_items)
    IN  [i \in 1..Len(kept) |->
            [title  |-> Title(IF "title" \in DOMAIN kept[i]
                              THEN kept[i].title ELSE ""),
             source |-> IF "source" \in DOMAIN kept[i]
                        THEN kept[i].source ELSE "financial_knowledge",
             source_type |-> IF "source_type" \in DOMAIN kept[i]
                             THEN kept[i].source_type ELSE "knowledge_item",
             url    |-> IF "url" \in DOMAIN kept[i]
                        THEN kept[i].url ELSE ""]]

\* add_financial_knowledge with no test of the content: the Document of an
\* item without content cannot be built, the except clause logs it and the
\* whole batch is lost
AddFinancialKnowledgeStrict(kb, knowledge_items) ==
    IF \E i \in 1..Len(knowledge_items) : Content(knowledge_items[i]) = EmptyContent
    THEN [vector_store |-> kb.vector_store, metadata |-> kb.metadata, saved |-> FALSE]
    ELSE AddTexts(kb, [i \in 1..Len(knowledge_items) |-> knowledge_items[i].content],
                  [i \in 1..Len(knowledge_items) |->
                      [title |-> Title(knowledge_items[i].title),
                       source |-> knowledge_items[i].source,
                       source_type |-> knowledge_items[i].source_type,
                       url |-> knowledge_items[i].url]])

\* add_financial_knowledge(knowledge_items): items without content are skipped
AddFinancialKnowledge(kb, knowledge_items) ==
    AddTexts(kb, KnowledgeTexts(knowledge_items), KnowledgeMetadatas(knowledge_items))

\* the data directory before anything was saved
EmptyDisk == [has_index |-> FALSE, index |-> <<>>,
              has_metadata |-> FALSE, metadata |-> NewMetadata]

\* _save_vector_store: nothing to save without a store; an error of
\* save_local is logged and the directory keeps what it had
SaveVectorStore(d, store, ok) ==
    IF store.initialized /\ ok
    THEN [d EXCEPT !.has_index = TRUE, !.index = store.docs]
    ELSE d

\* _save_metadata: an error of the write is logged
SaveMetadata(d, md, ok) ==
    IF ok THEN [d EXCEPT !.has_metadata = TRUE, !.metadata = md] ELSE d

\* the two saves that end add_documents, when it reaches them
Persist(d, kb, index_ok, metadata_ok) ==
    IF kb.saved
    THEN SaveMetadata(SaveVectorStore(d, kb.vector_store, index_ok),
                      kb.metadata, metadata_ok)
    ELSE d

\* _load_vector_store: FAISS.load_local of a directory that holds no index
\* throws, and the store stays None
LoadVectorStore(d) ==
    IF d.has_index THEN [initialized |-> TRUE, docs |-> d.index]
    ELSE [initialized |-> FALSE, docs |-> <<>>]

\* _load_metadata
LoadMetadata(d) == IF d.has_metadata THEN d.metadata ELSE NewMetadata

\* the sequences of n distinct positions of a store of size len: the
\* rankings the index may give for a query
Rankings(len, n) ==
    {r \in [1..n -> 1..len] : \A i, j \in 1..n : i # j => r[i] # r[j]}

\* what the index does at a search for k results: it throws, or it ranks
\* the min(k, size) nearest chunks
IndexOutcomes(store, k) ==
    {[throws |-> TRUE, ranking |-> <<>>]} \cup
    {[throws |-> FALSE, ranking |-> r] :
        r \in Rankings(Len(store.docs), Min(Max(k, 0), Len(store.docs)))}

\* similarity_search without its try/except: the throw of the index search
\* reaches the caller
SimilaritySearchUncaught(store, search_query, k, idx) ==
    IF ~store.initialized THEN [raised |-> FALSE, documents |-> <<>>]
    ELSE IF idx.throws THEN [raised |-> TRUE, documents |-> <<>>]
    ELSE [raised |-> FALSE,
          documents |-> [i \in 1..Len(idx.ranking) |-> store.docs[idx.ranking[i]]]]

\* similarity_search(query, k) when the index behaves as idx: [raised,
\* documents], the empty list without a vector store and when the index
\* search throws
SimilaritySearch(store, search_query, k, idx) ==
    IF ~store.initialized THEN [raised |-> FALSE, documents |-> <<>>]
    ELSE IF idx.throws THEN [raised |-> FALSE, documents |-> <<>>]
    ELSE [raised |-> FALSE,
          documents |-> [i \in 1..Len(idx.ranking) |-> store.docs[idx.ranking[i]]]]

(***************************************************************************)
(* Values of varying type (JSON values, the fields of a response).         *)
(***************************************************************************)
JNull      == [t |-> "null", v |-> 0]
JNum(r)    == [t |-> "num",  v |-> r]       \* r a rational
JStr(x)    == [t |-> "str",  v |-> x]       \* x a string literal
JText(x)   == [t |-> "text", v |-> x]       \* x a text (character or token sequence)
JList(x)   == [t |-> "list", v |-> x]       \* x a sequence
JDict(x)   == [t |-> "dict", v |-> x]       \* x a record

EmptyDict == [k \in {} |-> JNull]

\* len(x) is defined for x
HasLen(x) == x.t \in {"str", "text", "list", "dict"}

(***************************************************************************)
(* The text the generation capability returns, as a sequence of tokens:    *)
(*   FENCE_JSON  the characters ```json         FENCE  the characters ```  *)
(*   NL a newline   LB {   RB }   TXT prose without any of the above       *)
(*   MEMBER  "key": value, one member of a JSON object (only inside one)   *)
(*   SCALAR  a JSON value that is not an object                            *)
(***************************************************************************)
Tok(name)      == [tok |-> name, key |-> "", val |-> JNull]
Member(k, val) == [tok |-> "MEMBER", key |-> k, val |-> val]
Scalar(val)    == [tok |-> "SCALAR", key |-> "", val |-> val]
FENCE_JSON == Tok("FENCE_JSON")
FENCE == Tok("FENCE")
NL  == Tok("NL")
LB  == Tok("LB")
RB  == Tok("RB")
TXT == Tok("TXT")

\* a token that begins with the characters ```
StartsWithFence(tk) == tk.tok \in {"FENCE", "FENCE_JSON"}

LlmCitation(relevance) ==
    [source_title |-> Title("cited"), source_url |-> JNull,
     relevance |-> relevance, quote |-> JStr("quoted")]

MAnswer       == Member("answer", JStr("the answer"))
MCitations    == Member("citations", JList(<<LlmCitation(JNum(<<9, 10>>))>>))
MNoCitations  == Member("citations", JList(<<>>))
MConfidence   == Member("confidence", JNum(<<4, 5>>))
MFollowUps    == Member("follow_up_questions", JList(<<"next?">>))
FullObject    == <<LB, MAnswer, MCitations, MConfidence, MFollowUps, RB>>

\* texts the generation capability may return
LlmOutputs == <<
    <<TXT>>,                                                 \* prose only
    << >>,                                                   \* nothing
    <<FENCE_JSON, NL>> \o FullObject \o <<NL, FENCE>>,       \* fenced object
    <<TXT, NL>> \o FullObject \o <<NL, TXT>>,                \* bare object in prose
    <<LB, MAnswer, RB>>,                                     \* fields missing
    <<LB, RB>>,                                              \* all fields missing
    <<LB, MAnswer, MNoCitations, Member("confidence", JNull), MFollowUps, RB>>,
    <<LB, Member("answer", JNull), MNoCitations, MConfidence, MFollowUps, RB>>,
    <<LB, MAnswer, MNoCitations, Member("confidence", JNum(<<3, 2>>)), MFollowUps, RB>>,
    <<LB, MAnswer, MNoCitations, Member("confidence", JNum(<<-1, 2>>)), MFollowUps, RB>>,
    <<LB, MAnswer, Member("citations", JList(<<LlmCitation(JNum(<<2, 1>>))>>)),
          MConfidence, MFollowUps, RB>>,
    <<LB, MAnswer, Member("citations", JNull), MConfidence, MFollowUps, RB>>,
    <<LB, MAnswer, MConfidence, Member("follow_up_questions", JNull), RB>>,
    <<FENCE_JSON, NL, TXT, NL, FENCE>>,                      \* fenced prose
    <<FENCE_JSON, NL, LB, MAnswer, NL, FENCE>>,              \* fenced, object cut short
    <<FENCE, NL, TXT, NL, FENCE>>,                           \* fence without json
    <<FENCE_JSON, NL, Scalar(JList(<<>>)), NL, FENCE>>,      \* fenced JSON list
    <<FENCE_JSON, NL, Scalar(JNull), NL, FENCE>>,            \* fenced JSON null
    <<LB, MAnswer, RB, TXT, LB, MAnswer, RB>>,               \* two objects
    <<LB, MAnswer, MConfidence, Member("confidence", JNum(<<1, 2>>)), RB>>,
    <<TXT, RB, LB, TXT>> >>                                  \* braces, no object

(***************************************************************************)
(* ResponseGenerationModule.                                               *)
(***************************************************************************)
\* re.search(r'```json\n(.*?)\n```', response, re.DOTALL): the pairs <<i, j>>
\* with ```json at i, a newline after it, and a newline at j followed by ```
FencedMatches(response) ==
    {m \in (1..Len(response)) \X (1..Len(response)) :
        /\ response[m[1]].tok = "FENCE_JSON"
        /\ m[1] + 1 <= Len(response) /\ response[m[1] + 1].tok = "NL"
        /\ m[2] >= m[1] + 2 /\ m[2] + 1 <= Len(response)
        /\ response[m[2]].tok = "NL"
        /\ StartsWithFence(response[m[2] + 1])}

\* the leftmost match, with the shortest group: group(1)
FencedGroup(response) ==
    LET ms == FencedMatches(response)
        i  == CHOOSE x \in {m[1] : m \in ms} : \A y \in {m[1] : m \in ms} : x <= y
        j  == CHOOSE x \in {m[2] : m \in {n \in ms : n[1] = i}} :
                  \A y \in {m[2] : m \in {n \in ms : n[1] = i}} : x <= y
    IN  SubSeq(response, i + 2, j - 1)

\* re.search(r'(\{.*\})', response, re.DOTALL): the first { that has a } after
\* it, up to the last }
BraceMatches(response) ==
    {m \in (1..Len(response)) \X (1..Len(response)) :
        /\ response[m[1]].tok = "LB" /\ response[m[2]].tok = "RB" /\ m[1] < m[2]}

BraceGroup(response) ==
    LET ms == BraceMatches(response)
        i  == CHOOSE x \in {m[1] : m \in ms} : \A y \in {m[1] : m \in ms} : x <= y
        j  == CHOOSE x \in {m[2] : m \in ms} : \A y \in {m[2] : m \in ms} : y <= x
    IN  SubSeq(response, i, j)

\* json.loads(json_str): surrounding whitespace is skipped; the text must be
\* one object or one other value
JsonTrim(json_str) == SelectSeq(json_str, LAMBDA tk : tk.tok # "NL")

JsonIsObject(json_str) ==
    LET s == JsonTrim(json_str)
    IN  /\ Len(s) >= 2 /\ s[1].tok = "LB" /\ s[Len(s)].tok = "RB"
        /\ \A i \in 2..(Len(s) - 1) : s[i].tok = "MEMBER"

\* the dict of an object: of two members with one key the later one wins
JsonObject(json_str) ==
    LET s == JsonTrim(json_str)
        keys == {s[i].key : i \in 2..(Len(s) - 1)}
        last(k) == CHOOSE i \in 2..(Len(s) - 1) :
                      s[i].key = k /\ \A j \in 2..(Len(s) - 1) : s[j].key = k => j <= i
    IN  [k \in keys |-> s[last(k)].val]

RequiredFields == <<"answer", "citations", "confidence", "follow_up_questions">>

\* the default _parse_response gives a missing field
FieldDefault(field) ==
    IF field \in {"citations", "follow_up_questions"} THEN JList(<<>>)
    ELSE IF field = "confidence" THEN JNum(Zero)
    ELSE JStr("")

\* the loop over required_fields
FillRequired(parsed) ==
    [k \in DOMAIN parsed \cup {RequiredFields[i] : i \in 1..Len(RequiredFields)} |->
        IF k \in DOMAIN parsed THEN parsed[k] ELSE FieldDefault(k)]

\* _parse_response(response): [raised, value].  It raises ValueError when no
\* JSON is found or json.loads rejects the text, and TypeError when the JSON
\* value is not an object (the membership test or the item assignment fails).
ParseResponse(response) ==
    LET found == FencedMatches(response) # {} \/ BraceMatches(response) # {}
        json_str == IF FencedMatches(response) # {} THEN FencedGroup(response)
                    ELSE BraceGroup(response)
    IN  IF ~found THEN [raised |-> TRUE, value |-> EmptyDict]
        ELSE IF JsonIsObject(json_str)
             THEN [raised |-> FALSE, value |-> FillRequired(JsonObject(json_str))]
             ELSE [raised |-> TRUE, value |-> EmptyDict]

\* _format_context(documents)
FormatContext(documents) ==
    IF documents = <<>> THEN <<"No relevant information found.">>
    ELSE [i \in 1..Len(documents) |->
            [index   |-> i,
             title   |-> IF "title" \in DOMAIN documents[i].metadata
                         THEN documents[i].metadata.title ELSE DefaultTitle(i - 1),
             source  |-> IF "source" \in DOMAIN documents[i].metadata
                         THEN documents[i].metadata.source ELSE "Unknown source",
             url     |-> IF "url" \in DOMAIN documents[i].metadata
                         THEN documents[i].metadata.url ELSE "",
             content |-> documents[i].page_content]]

\* the clean-up of the raw response in _generate_simple_response
CleanAnswer(raw_response) ==
    IF \E i \in 1..Len(raw_response) : raw_response[i].tok = "FENCE_JSON"
    THEN SelectSeq(raw_response, LAMBDA tk : ~StartsWithFence(tk))
    ELSE raw_response

\* the citation with the position counted from 1: enumerate(documents, 1)
SimpleCitationFromOne(doc, i) ==
    [source_title |-> IF "title" \in DOMAIN doc.metadata
                      THEN doc.metadata.title ELSE DefaultTitle(i + 1),
     source_url   |-> JStr(IF "url" \in DOMAIN doc.metadata THEN doc.metadata.url ELSE ""),
     relevance    |-> JNum(<<1, i + 2>>),
     quote        |-> JNull]

\* the citation _generate_simple_response makes of the document at 0-based i
SimpleCitation(doc, i) ==
    [source_title |-> IF "title" \in DOMAIN doc.metadata
                      THEN doc.metadata.title ELSE DefaultTitle(i),
     source_url   |-> JStr(IF "url" \in DOMAIN doc.metadata THEN doc.metadata.url ELSE ""),
     relevance    |-> JNum(<<1, i + 1>>),
     quote        |-> JNull]

DefaultConfidence == <<7, 10>>
GenericFollowUps == <<"Can you explain more about this topic?",
                      "What are the next steps I should take?">>

\* _generate_simple_response(query, documents, raw_response)
GenerateSimpleResponse(q, documents, raw_response) ==
    [answer              |-> JText(CleanAnswer(raw_response)),
     citations           |-> JList([i \in 1..Len(documents) |->
                                       SimpleCitation(documents[i], i - 1)]),
     confidence          |-> JNum(DefaultConfidence),
     follow_up_questions |-> JList(GenericFollowUps)]

\* the final except clause answering with the defaults of the degraded
\* response
GenerationFallbackDegraded ==
    [answer              |-> JStr("I'm sorry, I encountered an error while generating a response. Please try asking your question differently."),
     citations           |-> JList(<<>>),
     confidence          |-> JNum(DefaultConfidence),
     follow_up_questions |-> JList(GenericFollowUps)]

\* the dict of the final except clause of generate_response
GenerationFallback ==
    [answer              |-> JStr("I'm sorry, I encountered an error while generating a response. Please try asking your question differently."),
     citations           |-> JList(<<>>),
     confidence          |-> JNum(Zero),
     follow_up_questions |-> JList(<<>>)]

\* what the generation capability does with a prompt: it throws, or it
\* returns one of its texts
LlmThrows == [throws |-> TRUE, text |-> <<>>, n |-> 0]
LlmReturns(i) == [throws |-> FALSE, text |-> LlmOutputs[i], n |-> i]

\* _parse_response on each of the texts, computed once
ParsedOutputs == [i \in 1..Len(LlmOutputs) |-> ParseResponse(LlmOutputs[i])]
\* outcome 0 is the throw, outcome i > 0 the i-th text
Llm(i) == IF i = 0 THEN LlmThrows ELSE LlmReturns(i)

\* generate_response without its outer try/except: the throw of the response
\* chain reaches the caller
GenerateResponseUncaught(q, retrieved_documents, history, llm) ==
    LET context == FormatContext(retrieved_documents)
        prompt  == [query |-> q, context |-> context]
        parsed  == ParsedOutputs[llm.n]
    IN  IF llm.throws
        THEN [raised |-> TRUE, path |-> "failed", prompt |-> prompt,
              value |-> EmptyDict]
        ELSE IF ~parsed.raised /\ HasLen(parsed.value["citations"])
        THEN [raised |-> FALSE, path |-> "structured", prompt |-> prompt,
              value |-> parsed.value]
        ELSE [raised |-> FALSE, path |-> "degraded", prompt |-> prompt,
              value |-> GenerateSimpleResponse(q, retrieved_documents, llm.text)]

\* generate_response(query, retrieved_documents, chat_history) when the
\* response chain behaves as llm: [raised, path, prompt, value]
GenerateResponse(q, retrieved_documents, history, llm) ==
    LET context == FormatContext(retrieved_documents)
        prompt  == [query |-> q, context |-> context]
        parsed  == ParsedOutputs[llm.n]
    IN  IF llm.throws
        THEN [raised |-> FALSE, path |-> "failed", prompt |-> prompt,
              value |-> GenerationFallback]
        ELSE IF ~parsed.raised /\ HasLen(parsed.value["citations"])
        THEN [raised |-> FALSE, path |-> "structured", prompt |-> prompt,
              value |-> parsed.value]
        ELSE [raised |-> FALSE, path |-> "degraded", prompt |-> prompt,
              value |-> GenerateSimpleResponse(q, retrieved_documents, llm.text)]


(***************************************************************************)
(* RAGSystem.                                                              *)
(***************************************************************************)
\* hash(doc.page_content): a fixed-width integer computed from a text.  The
\* texts outnumber the hash values; HashSpace is the width, scaled down.
HashSpace == 2
PyHash(content) == content % HashSpace

\* _deduplicate_documents(documents)
DeduplicateDocuments(documents) ==
    LET f[i \in 0..Len(documents)] ==
            IF i = 0 THEN [unique_docs |-> <<>>, seen_contents |-> {}]
            ELSE LET content_hash == PyHash(documents[i].page_content)
                 IN  IF content_hash \notin f[i-1].seen_contents
                     THEN [unique_docs   |-> Append(f[i-1].unique_docs, documents[i]),
                           seen_contents |-> f[i-1].seen_contents \cup {content_hash}]
                     ELSE f[i-1]
    IN  f[Len(documents)].unique_docs

\* the dict of the except clause of process_query
ProcessQueryFallback(q, e) ==
    [answer              |-> JStr("I'm sorry, I encountered an error while processing your query. Please try asking your question differently."),
     citations           |-> JList(<<>>),
     confidence          |-> JNum(Zero),
     follow_up_questions |-> JList(<<>>),
     query               |-> q,
     error               |-> JStr(e)]

\* process_query without its except clause: the exception reaches the caller
HandleExceptionReraise(q, e) == [outcome |-> "raised", value |-> EmptyDict]

\* the except clause of process_query: the exception e ends the call
HandleException(q, e) == [outcome |-> "returned", value |-> ProcessQueryFallback(q, e)]

\* the metadata without the analysis and the count: the query alone
WithMetadataEchoOnly(response, q, pq, unique) ==
    [k \in DOMAIN response \cup {"query"} |-> IF k = "query" THEN q ELSE response[k]]

\* the metadata process_query adds to the response
WithMetadata(response, q, pq, unique) ==
    [k \in DOMAIN response \cup {"query", "processed_query", "num_documents_retrieved"} |->
        IF k = "query" THEN q
        ELSE IF k = "processed_query" THEN JDict(pq)
        ELSE IF k = "num_documents_retrieved" THEN JNum(<<Len(unique), 1>>)
        ELSE response[k]]

(***************************************************************************)
(* The state machine: a knowledge base and one request at a time (the      *)
(* endpoints of app.py call the pipeline without yielding).                *)
(***************************************************************************)
\* the arguments a caller may pass
Str(chars) == JText(chars)
Queries == <<
    Str(<< >>),
    Str(<<"B","u","d","g","e","t","?">>),
    Str(<<"s","a","v","e"," ","m","o","n","e","y"," ","o","r"," ","d","e","b","t">>),
    JNull >>
ChatHistories == << JNull, JList(<<[role |-> "user", content |-> "earlier"]>>) >>

NoTrace == [retrievals |-> <<>>, thrown_at |-> "none", exception |-> "",
            deduplicated |-> <<>>,
            gen |-> [called |-> FALSE, passages |-> <<>>, llm |-> 0,
                     raised |-> FALSE, path |-> "none",
                     prompt |-> [query |-> JNull, context |-> <<>>],
                     value |-> EmptyDict]]
NoResult == [outcome |-> "none", value |-> EmptyDict]
NoQuery  == [original_query |-> <<>>, cleaned_query |-> <<>>, topics |-> <<>>,
             is_question |-> FALSE, numbers |-> <<>>, complexity |-> ""]

Idle ==
    /\ pc = "idle" /\ query = JNull /\ chat_history = JNull /\ num_results = 0
    /\ processed_query = NoQuery /\ search_queries = <<>> /\ qi = 0
    /\ all_documents = <<>> /\ unique_documents = <<>>
    /\ result = NoResult /\ trace = NoTrace

FnIdle == fn_pc = "unused" /\ fn_args = <<>> /\ fn_ret = <<>>

AppIdle == loop = 0 /\ handlers = <<>> /\ rag_system = 0 /\ registry = <<>>

\* KnowledgeBaseModule.__init__ over an empty data directory
KbInit ==
    /\ vector_store = LoadVectorStore(EmptyDisk)
    /\ metadata = LoadMetadata(EmptyDisk)
    /\ disk = EmptyDisk

Init ==
    /\ KbInit
    /\ AppIdle
    /\ Idle
    /\ FnIdle

\* RAGSystem.ingest_content hands the content items to
\* add_financial_knowledge, unless there are none.  The data directory of
\* this specification is writable; SpecPersist has the saves that fail.
Ingest(batch) ==
    LET current == [vector_store |-> vector_store, metadata |-> metadata,
                    saved |-> FALSE]
        kb == IF batch = <<>> THEN current ELSE AddFinancialKnowledge(current, batch)
    IN  /\ pc = "idle"
        /\ Len(kb.vector_store.docs) <= MaxChunks
        /\ vector_store' = kb.vector_store
        /\ metadata' = kb.metadata
        /\ disk' = Persist(disk, kb, TRUE, TRUE)
        /\ UNCHANGED <<req_vars, fn_vars, app_vars>>

\* a caller enters process_query(query, chat_history, num_results)
StartQuery(q, history, k) ==
    /\ pc = "idle"
    /\ pc' = "analyze"
    /\ query' = q /\ chat_history' = history /\ num_results' = k
    /\ UNCHANGED <<processed_query, search_queries, qi, all_documents,
                   unique_documents, result, trace, kb_vars, fn_vars, app_vars>>

\* an end of the call that also drops the store
FinishResetting(res, tr) ==
    /\ pc' = "done"
    /\ result' = res
    /\ trace' = tr
    /\ processed_query' = NoQuery /\ search_queries' = <<>> /\ qi' = 0
    /\ all_documents' = <<>> /\ unique_documents' = <<>>
    /\ vector_store' = LoadVectorStore(EmptyDisk)
    /\ UNCHANGED <<query, chat_history, num_results, metadata, disk, fn_vars, app_vars>>

\* the end of the call: the locals are gone, the caller has the result
Finish(res, tr) ==
    /\ pc' = "done"
    /\ result' = res
    /\ trace' = tr
    /\ processed_query' = NoQuery /\ search_queries' = <<>> /\ qi' = 0
    /\ all_documents' = <<>> /\ unique_documents' = <<>>
    /\ UNCHANGED <<query, chat_history, num_results, kb_vars, fn_vars, app_vars>>

\* an exception e out of a step reaches the except clause of process_query
Raise(step, e, tr) ==
    Finish(HandleException(query, e),
           [tr EXCEPT !.retrievals = <<>>, !.thrown_at = step, !.exception = e])

\* processed_query = self.query_processing.process_query(query); a query
\* that is not a string makes query.lower() throw
Analyze ==
    /\ pc = "analyze"
    /\ IF query.t = "text"
       THEN /\ processed_query' = AnalyzeQuery(query.v)
            /\ pc' = "expand"
            /\ UNCHANGED <<query, chat_history, num_results, search_queries, qi,
                           all_documents, unique_documents, result, trace,
                           kb_vars, fn_vars, app_vars>>
       ELSE Raise("analyze", "AttributeError", trace)

\* search_queries = self.query_processing.generate_search_queries(processed_query)
Expand ==
    /\ pc = "expand"
    /\ search_queries' = GenerateSearchQueries(processed_query, DefaultMaxQueries)
    /\ qi' = 1
    /\ pc' = "retrieve"
    /\ UNCHANGED <<query, chat_history, num_results, processed_query,
                   all_documents, unique_documents, result, trace, kb_vars, fn_vars, app_vars>>

\* one turn of the for loop: documents = similarity_search(search_query, k)
Retrieve ==
    /\ pc = "retrieve"
    /\ qi <= Len(search_queries)
    /\ \E idx \in IndexOutcomes(vector_store, num_results) :
       LET found == SimilaritySearch(vector_store, search_queries[qi], num_results, idx)
       IN  IF found.raised
           THEN Raise("similarity_search", "SearchError", trace)
           ELSE /\ all_documents' = all_documents \o found.documents
                /\ trace' = [trace EXCEPT !.retrievals =
                                Append(@, [search_query |-> search_queries[qi],
                                           failed |-> ~vector_store.initialized \/ idx.throws,
                                           documents |-> found.documents])]
                /\ qi' = qi + 1
                /\ UNCHANGED <<pc, query, chat_history, num_results, processed_query,
                               search_queries, unique_documents, result,
                               kb_vars, fn_vars, app_vars>>

\* unique_documents = self._deduplicate_documents(all_documents)
Deduplicate ==
    /\ pc = "retrieve"
    /\ qi > Len(search_queries)
    /\ unique_documents' = DeduplicateDocuments(all_documents)
    /\ pc' = "synthesize"
    /\ UNCHANGED <<query, chat_history, num_results, processed_query,
                   search_queries, qi, all_documents, result, trace, kb_vars, fn_vars, app_vars>>

\* response = self.response_generation.generate_response(...), the metadata,
\* and the return; an exception out of generate_response reaches the except
\* clause
Synthesize ==
    /\ pc = "synthesize"
    /\ \E i \in 0..Len(LlmOutputs) :
       LET passages == PySliceTo(unique_documents, num_results)
           gen == GenerateResponse(query, passages, chat_history, Llm(i))
           tr  == [trace EXCEPT !.retrievals = <<>>,
                                !.deduplicated = unique_documents,
                                !.gen = [called |-> TRUE, passages |-> passages,
                                         llm |-> i, raised |-> gen.raised,
                                         path |-> gen.path, prompt |-> gen.prompt,
                                         value |-> gen.value]]
       IN  IF gen.raised
           THEN Raise("generate_response", "GenerationError", tr)
           ELSE Finish([outcome |-> "returned",
                        value |-> WithMetadata(gen.value, query, processed_query,
                                               unique_documents)],
                       tr)

\* any step may end in an exception of its own (a MemoryError, a collaborator
\* that fails): the except clause of process_query takes it
StepThrows ==
    /\ pc \in {"analyze", "expand", "retrieve", "synthesize"}
    /\ Raise(IF pc = "retrieve" /\ qi > Len(search_queries) THEN "deduplicate" ELSE pc,
             "Exception", trace)

\* the caller has taken the result
Return ==
    /\ pc = "done"
    /\ pc' = "idle" /\ query' = JNull /\ chat_history' = JNull /\ num_results' = 0
    /\ result' = NoResult /\ trace' = NoTrace
    /\ UNCHANGED <<processed_query, search_queries, qi, all_documents,
                   unique_documents, kb_vars, fn_vars, app_vars>>

Next ==
    \/ \E b \in 1..Len(Batches) : Ingest(Batches[b])
    \/ \E q \in 1..Len(Queries), h \in 1..Len(ChatHistories), k \in 0..MaxBudget :
           StartQuery(Queries[q], ChatHistories[h], k)
    \/ Analyze
    \/ Expand
    \/ Retrieve
    \/ Deduplicate
    \/ Synthesize
    \/ StepThrows
    \/ Return

Spec == Init /\ [][Next]_vars


(***************************************************************************)
(* generate_search_queries called directly, on every analyzed query of a   *)
(* bounded vocabulary and every max_queries up to MaxMaxQueries.           *)
(***************************************************************************)
Vocabulary == << <<"B","u","d","g","e","t">>, <<"c","a","s","h">>,
                 <<"f","l","o","w">>, <<"s","a","v","e">>,
                 <<"m","o","n","e","y","!">>, <<"d","e","b","t">>,
                 <<"h","i","?">> >>

RawQueries ==
    {JoinSpace([i \in 1..Len(w) |-> Vocabulary[w[i]]]) :
        w \in UNION {[1..n -> 1..Len(Vocabulary)] : n \in 0..MaxQueryWords}}

ExpandInit ==
    /\ KbInit
    /\ AppIdle
    /\ Idle
    /\ fn_pc = "ready"
    /\ fn_args \in {[processed_query |-> AnalyzeQuery(q), max_queries |-> m] :
                        q \in RawQueries, m \in 0..MaxMaxQueries}
    /\ fn_ret = <<>>

CallGenerateSearchQueries ==
    /\ fn_pc = "ready"
    /\ fn_ret' = GenerateSearchQueries(fn_args.processed_query, fn_args.max_queries)
    /\ fn_pc' = "returned"
    /\ UNCHANGED <<fn_args, kb_vars, req_vars, app_vars>>

ExpandNext == CallGenerateSearchQueries

SpecExpand == ExpandInit /\ [][ExpandNext]_vars


(***************************************************************************)
(* QueryProcessingModule.process_query called directly, on the raw queries *)
(* made of up to MaxAnalyzeWords phrases followed by padding words.        *)
(***************************************************************************)
MaxAnalyzeWords == 2

AnalyzeVocabulary == << <<"W","h","a","t">>,
                      <<"b","u","d","g","e","t","?">>,
                      <<"s","a","v","e"," ","m","o","n","e","y">>,
                      <<"d","e","b","t"," ","l","o","a","n">>,
                      <<"$","5",",","0","0","0">>,
                      <<"1","0","%">>,
                      <<"5">>,
                      <<"5","0","/","3","0","/","2","0">>,
                      <<"&">>,
                      <<"v","e","r","s","u","s">>,
                      <<"a","n","d">> >>

\* the numbers of padding words tried: they take the word count to both
\* sides of 10 and of 25
Paddings == {0, 8, 9, 23, 24}

RECURSIVE Padding(_)
Padding(n) == IF n = 0 THEN <<>> ELSE <<" ", "x">> \o Padding(n - 1)

ExampleQuery ==
    <<"W","h","a","t"," ","i","s"," ","t","h","e"," ","5","0","/","3","0","/","2","0"," ","r","u","l">> \o
    <<"e"," ","f","o","r"," ","a"," ","$","5",",","0","0","0"," ","b","u","d","g","e","t","?">>

AnalyzeInputs ==
    {JoinSpace([i \in 1..Len(w) |-> AnalyzeVocabulary[w[i]]]) \o Padding(n) :
        w \in UNION {[1..k -> 1..Len(AnalyzeVocabulary)] : k \in 0..MaxAnalyzeWords},
        n \in Paddings}
    \cup {ExampleQuery}

AnalyzeInit ==
    /\ KbInit
    /\ AppIdle
    /\ Idle
    /\ fn_pc = "ready"
    /\ fn_args \in {[query |-> q] : q \in AnalyzeInputs}
    /\ fn_ret = <<>>

CallProcessQuery ==
    /\ fn_pc = "ready"
    /\ fn_ret' = AnalyzeQuery(fn_args.query)
    /\ fn_pc' = "returned"
    /\ UNCHANGED <<fn_args, kb_vars, req_vars, app_vars>>

AnalyzeNext == CallProcessQuery

SpecAnalyze == AnalyzeInit /\ [][AnalyzeNext]_vars

(***************************************************************************)
(* _extract_topics called directly, on one cleaned query after another.    *)
(***************************************************************************)
MaxTopicWords == 2

TopicVocabulary == << <<"b","u","d","g","e","t">>,
                    <<"c","a","s","h">>,
                    <<"f","l","o","w">>,
                    <<"s","a","v","e">>,
                    <<"m","o","n","e","y">>,
                    <<"d","e","b","t">>,
                    <<"l","o","a","n">> >>

TopicInputs ==
    {JoinSpace([i \in 1..Len(w) |-> TopicVocabulary[w[i]]]) :
        w \in UNION {[1..k -> 1..Len(TopicVocabulary)] : k \in 0..MaxTopicWords}}

TopicsInit ==
    /\ KbInit
    /\ AppIdle
    /\ Idle
    /\ fn_pc = "ready"
    /\ fn_args \in {[query |-> q] : q \in TopicInputs}
    /\ fn_ret = <<>>

\* _extract_topics on each of the queries
TopicResults == [q \in TopicInputs |-> ExtractTopics(q)]

CallExtractTopics ==
    /\ fn_pc = "ready"
    /\ fn_ret' = TopicResults[fn_args.query]
    /\ fn_pc' = "returned"
    /\ UNCHANGED <<fn_args, kb_vars, req_vars, app_vars>>

\* the next call, on any query
CallExtractTopicsAgain ==
    /\ fn_pc = "returned"
    /\ \E q \in TopicInputs :
          /\ fn_args' = [query |-> q]
          /\ fn_ret' = TopicResults[q]
    /\ UNCHANGED <<fn_pc, kb_vars, req_vars, app_vars>>

TopicsNext == CallExtractTopics \/ CallExtractTopicsAgain

SpecTopics == TopicsInit /\ [][TopicsNext]_vars

(***************************************************************************)
(* KnowledgeBaseModule over its data directory: add_financial_knowledge    *)
(* called directly, and the process restarted.                             *)
(***************************************************************************)
ItemNoContent  == [title |-> "N", source |-> "s3", url |-> "",
                   source_type |-> "unknown"]
ItemListSource == [title |-> "T", content |-> 3, source |-> ListSource, url |-> "",
                   source_type |-> "unknown"]

KnowledgeBatches == << <<ItemA, ItemEmpty, ItemB>>, <<ItemNoContent, ItemC>>,
                       <<ItemA2>>, <<ItemLong>>, <<ItemEmpty>>, << >>,
                       <<ItemListSource>> >>

PersistInit ==
    /\ KbInit
    /\ AppIdle
    /\ Idle
    /\ fn_pc = "ready"
    /\ fn_args = <<>>
    /\ fn_ret = <<>>

\* add_financial_knowledge(knowledge_items) runs and returns; each of the
\* two saves it ends with succeeds or fails
CallAddFinancialKnowledge(knowledge_items, index_ok, metadata_ok) ==
    LET kb == AddFinancialKnowledge([vector_store |-> vector_store,
                                     metadata |-> metadata], knowledge_items)
    IN  /\ fn_pc \in {"ready", "returned", "restarted"}
        /\ Len(kb.vector_store.docs) <= MaxChunks
        /\ kb.metadata.chunk_count <= MaxChunks
        /\ kb.metadata.document_count <= MaxChunks
        /\ vector_store' = kb.vector_store
        /\ metadata' = kb.metadata
        /\ disk' = Persist(disk, kb, index_ok, metadata_ok)
        /\ fn_pc' = "returned"
        /\ fn_args' = [knowledge_items |-> knowledge_items]
        /\ fn_ret' = [raised |-> FALSE]
        /\ UNCHANGED <<req_vars, app_vars>>

\* the process ends and a new KnowledgeBaseModule is constructed over the
\* same data directory
Restart ==
    /\ fn_pc = "returned"
    /\ vector_store' = LoadVectorStore(disk)
    /\ metadata' = LoadMetadata(disk)
    /\ fn_pc' = "restarted"
    /\ UNCHANGED <<disk, fn_args, fn_ret, req_vars, app_vars>>

PersistNext ==
    \/ \E i \in 1..Len(KnowledgeBatches) : \E index_ok, metadata_ok \in BOOLEAN :
          CallAddFinancialKnowledge(KnowledgeBatches[i], index_ok, metadata_ok)
    \/ Restart

SpecPersist == PersistInit /\ [][PersistNext]_vars

(***************************************************************************)
(* The API process: requests to /api/ingest and /api/query arrive at any   *)
(* time.  Both handlers are coroutines (async def) whose bodies hold no    *)
(* await: once the event loop has started one, it runs to its return       *)
(* before the loop starts another.                                         *)
(***************************************************************************)
MaxRequests == 3
MaxSearches == 2

RequestBatches == << <<ItemA, ItemEmpty, ItemB>>, <<ItemC>>, <<ItemListSource>> >>

\* the ingest handlers that have written the index and not yet returned
\* from add_documents
Writers ==
    {h \in 1..Len(handlers) : handlers[h].kind = "ingest"
                                /\ handlers[h].pc \in {"metadata", "save"}}

\* what a reader can see of the store at one instant
Snapshot == [chunks |-> Len(vector_store.docs), chunk_count |-> metadata.chunk_count,
             writers |-> Cardinality(Writers)]

\* the handler of request h may be started: always
CanStartInThread(h) == handlers[h].pc = "pending"

\* the handler of request h may be started: the event loop is running no
\* other handler
CanStart(h) == handlers[h].pc = "pending" /\ loop = 0

ConcurrentInit ==
    /\ KbInit
    /\ AppIdle
    /\ Idle
    /\ FnIdle

\* a request reaches the server
Arrive(kind, knowledge_items) ==
    /\ Len(handlers) < MaxRequests
    /\ handlers' = Append(handlers, [kind |-> kind, pc |-> "pending",
                                     knowledge_items |-> knowledge_items,
                                     documents |-> <<>>,
                                     start |-> [vector_store |-> vector_store,
                                                metadata |-> metadata],
                                     seen |-> <<>>])
    /\ UNCHANGED <<loop, kb_vars, req_vars, fn_vars, obj_vars>>

\* the event loop starts the handler; the ingest handler gets as far as
\* add_documents with the Documents of its items
Dispatch(h) ==
    /\ CanStart(h)
    /\ handlers[h].kind = "ingest" =>
          Len(vector_store.docs)
             + Len(SplitDocuments(TextDocuments(KnowledgeTexts(handlers[h].knowledge_items),
                                                KnowledgeMetadatas(handlers[h].knowledge_items))))
             <= MaxChunks
    /\ loop' = h
    /\ handlers' = [handlers EXCEPT
          ![h].pc = IF handlers[h].kind = "ingest" THEN "index" ELSE "search",
          ![h].documents = TextDocuments(KnowledgeTexts(handlers[h].knowledge_items),
                                         KnowledgeMetadatas(handlers[h].knowledge_items)),
          ![h].start = [vector_store |-> vector_store, metadata |-> metadata]]
    /\ UNCHANGED <<kb_vars, req_vars, fn_vars, obj_vars>>

\* add_documents: the chunks go into the index
IngestIndex(h) ==
    /\ handlers[h].pc = "index"
    /\ IF IndexThrows(vector_store, handlers[h].documents)
       THEN /\ handlers' = [handlers EXCEPT ![h].pc = "respond"]
            /\ UNCHANGED vector_store
       ELSE /\ vector_store' = IndexDocuments(vector_store, handlers[h].documents)
            /\ handlers' = [handlers EXCEPT ![h].pc = "metadata"]
    /\ UNCHANGED <<metadata, disk, loop, req_vars, fn_vars, obj_vars>>

\* add_documents: the counters, then the source list
IngestMetadata(h) ==
    /\ handlers[h].pc = "metadata"
    /\ IF SourcesThrow(handlers[h].documents)
       THEN /\ metadata' = CountDocuments(metadata, handlers[h].documents)
            /\ handlers' = [handlers EXCEPT ![h].pc = "respond"]
       ELSE /\ metadata' = [CountDocuments(metadata, handlers[h].documents) EXCEPT
                               !.sources = AddSources(@, handlers[h].documents)]
            /\ handlers' = [handlers EXCEPT ![h].pc = "save"]
    /\ UNCHANGED <<vector_store, disk, loop, req_vars, fn_vars, obj_vars>>

\* add_documents: the two saves
IngestSave(h, index_ok, metadata_ok) ==
    /\ handlers[h].pc = "save"
    /\ disk' = SaveMetadata(SaveVectorStore(disk, vector_store, index_ok),
                            metadata, metadata_ok)
    /\ handlers' = [handlers EXCEPT ![h].pc = "respond"]
    /\ UNCHANGED <<vector_store, metadata, loop, req_vars, fn_vars, obj_vars>>

\* process_query: one similarity_search of its loop over the search queries
QuerySearch(h) ==
    /\ handlers[h].pc = "search"
    /\ handlers' = [handlers EXCEPT
          ![h].seen = Append(@, Snapshot),
          ![h].pc = IF Len(handlers[h].seen) + 1 < MaxSearches
                    THEN "search" ELSE "respond"]
    /\ UNCHANGED <<loop, kb_vars, req_vars, fn_vars, obj_vars>>

\* the handler returns its response and the event loop is free again
Respond(h) ==
    /\ handlers[h].pc = "respond"
    /\ handlers' = [handlers EXCEPT ![h].pc = "done"]
    /\ loop' = IF loop = h THEN 0 ELSE loop
    /\ UNCHANGED <<kb_vars, req_vars, fn_vars, obj_vars>>

ConcurrentNext ==
    \/ \E b \in 1..Len(RequestBatches) : Arrive("ingest", RequestBatches[b])
    \/ Arrive("query", <<>>)
    \/ \E h \in 1..Len(handlers) :
          \/ Dispatch(h)
          \/ IngestIndex(h)
          \/ IngestMetadata(h)
          \/ \E index_ok, metadata_ok \in BOOLEAN : IngestSave(h, index_ok, metadata_ok)
          \/ QuerySearch(h)
          \/ Respond(h)

SpecConcurrent == ConcurrentInit /\ [][ConcurrentNext]_vars

(***************************************************************************)
(* Properties.  trace records, for the request in progress, the retrieval  *)
(* calls made and the call to generate_response; at pc = "done" result is  *)
(* what the caller of process_query has in hand.                           *)
(***************************************************************************)
IsEmptyList(x) == x.t = "list" /\ Len(x.v) = 0
IsNumber(x, r) == x.t = "num" /\ RatEq(x.v, r)
InUnitInterval(x) == x.t = "num" => (RatLeq(Zero, x.v) /\ RatLeq(x.v, One))
HasFourFields(d) == \A i \in 1..Len(RequiredFields) : RequiredFields[i] \in DOMAIN d
NonNullFields(d) ==
    /\ HasFourFields(d)
    /\ \A i \in 1..Len(RequiredFields) : d[RequiredFields[i]].t # "null"

\* the apologetic fallback shape: an answer, no citations, confidence 0.0,
\* no follow-up questions
IsApology(d) ==
    /\ HasFourFields(d)
    /\ d["answer"].t = "str"
    /\ IsEmptyList(d["citations"])
    /\ IsNumber(d["confidence"], Zero)
    /\ IsEmptyList(d["follow_up_questions"])

Returned == pc = "done"
Synthesized == pc = "done" /\ trace.gen.called

\* C1: process_query never raises to its caller; whichever step threw
\* (analysis, expansion, retrieval, deduplication, synthesis), it returns the
\* fallback record: an answer, citations = [], confidence = 0.0,
\* follow_up_questions = [], and the exception text in the field 'error'.
C1_ProcessQueryNeverRaises ==
    Returned =>
        /\ result.outcome = "returned"
        /\ trace.thrown_at # "none" =>
              /\ IsApology(result.value)
              /\ "error" \in DOMAIN result.value
              /\ result.value["error"].t = "str"
              /\ result.value["error"].v = trace.exception

\* a request on an initialized store whose synthesis step threw
C1_Witness ==
    /\ Returned
    /\ vector_store.initialized
    /\ num_results >= 1
    /\ trace.thrown_at = "synthesize"
    /\ result.outcome = "returned"
    /\ "error" \in DOMAIN result.value

\* C2: generate_response never raises; when the call of the generation
\* capability throws, the result is the apologetic fallback (citations = [],
\* confidence = 0.0, follow_up_questions = []), however many passages it got.
C2_GenerateResponseNeverRaises ==
    Synthesized =>
        /\ ~trace.gen.raised
        /\ trace.gen.llm = 0 =>
              /\ trace.gen.path = "failed"
              /\ IsApology(trace.gen.value)

\* the generation capability threw on a prompt built from two passages
C2_Witness ==
    /\ Synthesized
    /\ trace.gen.llm = 0
    /\ Len(trace.gen.passages) = 2
    /\ IsApology(trace.gen.value)

\* C3: when the generation capability returns a text that cannot be parsed
\* into the structured shape, generate_response returns the degraded
\* response: one citation per input passage in input order, the citation at
\* 0-based position i with relevance 1/(i+1) and no quote, confidence 0.7 and
\* the fixed generic follow-up questions.
C3_DegradedResponse ==
    (Synthesized /\ trace.gen.llm > 0 /\ ParsedOutputs[trace.gen.llm].raised) =>
        LET v == trace.gen.value
            p == trace.gen.passages
        IN  /\ trace.gen.path = "degraded"
            /\ HasFourFields(v)
            /\ v["citations"].t = "list"
            /\ Len(v["citations"].v) = Len(p)
            /\ \A i \in 1..Len(p) :
                  LET c == v["citations"].v[i]
                  IN  /\ c.source_title = p[i].metadata.title
                      /\ IsNumber(c.relevance, <<1, i>>)
                      /\ c.quote.t = "null"
            /\ IsNumber(v["confidence"], <<7, 10>>)
            /\ v["follow_up_questions"].t = "list"
            /\ v["follow_up_questions"].v =
                  <<"Can you explain more about this topic?",
                    "What are the next steps I should take?">>

\* unparsable text with two input passages: relevances 1.0 and 0.5
C3_Witness ==
    /\ Synthesized
    /\ trace.gen.llm > 0
    /\ ParsedOutputs[trace.gen.llm].raised
    /\ Len(trace.gen.passages) = 2
    /\ Len(trace.gen.value["citations"].v) = 2
    /\ IsNumber(trace.gen.value["citations"].v[1].relevance, One)
    /\ IsNumber(trace.gen.value["citations"].v[2].relevance, <<1, 2>>)

\* C4: every result of generate_response and of process_query, on the
\* structured, degraded and failed paths and for every text of the
\* generation capability, has the four fields answer, citations, confidence
\* and follow_up_questions present and non-null.
C4_FieldsNeverNull ==
    /\ Synthesized => NonNullFields(trace.gen.value)
    /\ (Returned /\ result.outcome = "returned") => NonNullFields(result.value)

\* C5: in every result of generate_response the confidence lies in [0,1] and
\* every citation's relevance lies in [0,1], whatever numbers the generation
\* capability's output contains.
C5_ScoresInUnitInterval ==
    Synthesized =>
        LET v == trace.gen.value
        IN  /\ InUnitInterval(v["confidence"])
            /\ v["citations"].t = "list" =>
                  \A i \in 1..Len(v["citations"].v) :
                      InUnitInterval(v["citations"].v[i].relevance)

\* the merged list with every later occurrence of a content removed
DistinctContents(documents) ==
    LET first(i) == \A j \in 1..(i - 1) :
                        documents[j].page_content # documents[i].page_content
        f[i \in 0..Len(documents)] ==
            IF i = 0 THEN <<>>
            ELSE IF first(i) THEN Append(f[i-1], documents[i]) ELSE f[i-1]
    IN  f[Len(documents)]

\* C6: deduplication keeps exactly one passage per distinct content: of every
\* merged list of retrieval results, _deduplicate_documents returns each
\* distinct content once, at the position of its first occurrence, the order
\* of first occurrences kept.
C6_OnePassagePerContent ==
    pc = "synthesize" => unique_documents = DistinctContents(all_documents)

IsPrefix(s, t) == Len(s) <= Len(t) /\ \A i \in 1..Len(s) : s[i] = t[i]

\* C7: the passages process_query hands to generate_response are a prefix of
\* the deduplicated merged list and number at most num_results, for every
\* result budget and every content of the store.
C7_PassagesWithinBudget ==
    Synthesized =>
        /\ IsPrefix(trace.gen.passages, trace.deduplicated)
        /\ Len(trace.gen.passages) <= num_results

\* more unique passages than the budget: the list was cut
C7_Witness ==
    /\ Synthesized
    /\ num_results >= 1
    /\ Len(trace.deduplicated) > num_results
    /\ Len(trace.gen.passages) = num_results

\* the documents of the retrieval calls, in call order
RECURSIVE MergedDocuments(_)
MergedDocuments(retrievals) ==
    IF retrievals = <<>> THEN <<>>
    ELSE Head(retrievals).documents \o MergedDocuments(Tail(retrievals))

\* C8: a retrieval call never aborts aggregation: when the store is
\* uninitialized or the index search throws for one expanded query,
\* similarity_search gives the empty list for that query, the remaining
\* expanded queries are still issued in order, and the merged results are
\* what is deduplicated, cut to the budget and handed to generate_response.
C8_RetrievalFailureTolerated ==
    [][ /\ (pc = "retrieve" /\ pc' = "done") =>
              trace'.thrown_at # "similarity_search"
        /\ (pc = "retrieve" /\ pc' = "retrieve" /\ qi' # qi) =>
              /\ qi' = qi + 1
              /\ Len(trace'.retrievals) = qi
              /\ trace'.retrievals[qi].search_query = search_queries[qi]
              /\ ~vector_store.initialized => trace'.retrievals[qi].failed
              /\ trace'.retrievals[qi].failed => trace'.retrievals[qi].documents = <<>>
              /\ all_documents' = all_documents \o trace'.retrievals[qi].documents
        /\ (pc = "retrieve" /\ pc' = "synthesize") =>
              /\ Len(trace.retrievals) = Len(search_queries)
              /\ \A i \in 1..Len(search_queries) :
                    trace.retrievals[i].search_query = search_queries[i]
              /\ all_documents = MergedDocuments(trace.retrievals)
        /\ (pc = "synthesize" /\ pc' = "done" /\ trace'.gen.called) =>
              LET merged == MergedDocuments(trace.retrievals)
              IN  /\ IsPrefix(trace'.gen.passages, trace'.deduplicated)
                  /\ \A i \in 1..Len(trace'.deduplicated) :
                        \E j \in 1..Len(merged) : merged[j] = trace'.deduplicated[i]
                  /\ (num_results >= 1 /\ merged # <<>>) =>
                        (trace'.gen.passages # <<>> /\ trace'.gen.passages[1] = merged[1])
      ]_vars

\* on an initialized store the first expanded query's search threw, a later
\* one found passages, and they are ready for generate_response
C8_Witness ==
    /\ pc = "synthesize"
    /\ vector_store.initialized
    /\ Len(trace.retrievals) >= 2
    /\ trace.retrievals[1].failed
    /\ trace.retrievals[1].documents = <<>>
    /\ trace.retrievals[2].documents # <<>>
    /\ unique_documents # <<>>
    /\ unique_documents[1] = trace.retrievals[2].documents[1]

ValidQuery == query.t = "text"

Called == fn_pc = "returned"

\* C10 as stated: for every analyzed query and every max_queries,
\* generate_search_queries returns a list of length at least 1 and at most
\* max_queries whose first element is the cleaned query.
C10_ExpansionBounds ==
    Called =>
        /\ Len(fn_ret) >= 1
        /\ Len(fn_ret) <= fn_args.max_queries
        /\ fn_ret[1] = fn_args.processed_query.cleaned_query

\* C10 amended: for every analyzed query and every max_queries >= 1,
\* generate_search_queries returns a list of length at least 1 and at most
\* max_queries whose first element is the cleaned query.
C10_ExpansionBoundsAmended ==
    (Called /\ fn_args.max_queries >= 1) =>
        /\ Len(fn_ret) >= 1
        /\ Len(fn_ret) <= fn_args.max_queries
        /\ fn_ret[1] = fn_args.processed_query.cleaned_query
        /\ fn_ret[1] = CleanQuery(fn_args.processed_query.original_query)

\* a query of two topics expanded under max_queries = 2: the third query is
\* cut
C10_Witness ==
    /\ Called
    /\ fn_args.max_queries = 2
    /\ Len(fn_args.processed_query.topics) >= 2
    /\ Len(fn_ret) = 2
    /\ fn_ret[1] = fn_args.processed_query.cleaned_query
    /\ fn_ret[2] # fn_ret[1]

(***************************************************************************)
(* Query analysis.                                                         *)
(***************************************************************************)
\* the score of a topic in a result of _extract_topics, 0 when it is absent
ScoreOf(topics, name) ==
    LET hits == {i \in 1..Len(topics) : topics[i].topic = name}
    IN  IF hits = {} THEN Zero ELSE topics[CHOOSE i \in hits : TRUE].score

\* len(re.findall(...)) of keyword k of topic t in each of the queries
MatchCounts ==
    [q \in TopicInputs |->
        [t \in 1..Len(FinancialTopics) |->
            [k \in 1..Len(FinancialTopics[t].keywords) |->
                CountMatches(q, FinancialTopics[t].keywords[k])]]]

\* the keywords of topic t that match q
MatchedSet(q, t) == {k \in DOMAIN MatchCounts[q][t] : MatchCounts[q][t][k] > 0}

\* C11: every topic score returned by _extract_topics is at most 1.0; from
\* one call to another, a topic's score does not decrease when no keyword of
\* the topic matches fewer times, nor when the one matched keyword is
\* replaced by a keyword of at least as many words matched at least as often.
C11_TopicScoreCappedMonotone ==
    [][fn_pc' = "returned" =>
         /\ \A i \in 1..Len(fn_ret') :
               /\ RatLeq(fn_ret'[i].score, One)
               /\ ~RatLeq(fn_ret'[i].score, Zero)
         /\ fn_pc = "returned" =>
               \A t \in 1..Len(FinancialTopics) :
                   LET keywords == FinancialTopics[t].keywords
                       old == ScoreOf(fn_ret, FinancialTopics[t].topic)
                       new == ScoreOf(fn_ret', FinancialTopics[t].topic)
                       was == MatchCounts[fn_args.query][t]
                       now == MatchCounts[fn_args'.query][t]
                   IN  /\ (\A k \in 1..Len(keywords) : now[k] >= was[k])
                             => RatLeq(old, new)
                       /\ \A k1, k2 \in 1..Len(keywords) :
                             (/\ MatchedSet(fn_args.query, t) = {k1}
                              /\ MatchedSet(fn_args'.query, t) = {k2}
                              /\ now[k2] >= was[k1]
                              /\ WordCount(keywords[k2]) >= WordCount(keywords[k1]))
                             => RatLeq(old, new)
      ]_vars

\* a call on a query where one topic's matches sum to more than 1.0 and the
\* returned score is 1.0
C11_Witness ==
    /\ fn_pc = "returned"
    /\ \E i \in 1..Len(fn_ret) : \E t \in 1..Len(FinancialTopics) :
          /\ fn_ret[i].topic = FinancialTopics[t].topic
          /\ TopicScoreSixths(fn_args.query, FinancialTopics[t].keywords) > 6
          /\ RatEq(fn_ret[i].score, One)

\* C12: process_query("") returns an analysis with is_question False, no
\* topics, no numbers and complexity "simple".
C12_EmptyQueryAnalysis ==
    (Called /\ fn_args.query = <<>>) =>
        /\ fn_ret.original_query = <<>>
        /\ fn_ret.cleaned_query = <<>>
        /\ fn_ret.is_question = FALSE
        /\ fn_ret.topics = <<>>
        /\ fn_ret.numbers = <<>>
        /\ fn_ret.complexity = "simple"

\* the call on the empty string has returned
C12_Witness ==
    /\ Called
    /\ fn_args.query = <<>>
    /\ fn_ret.complexity = "simple"
    /\ fn_ret.numbers = <<>>

\* the entries of a numbers list with the given type and value
EntriesOf(numbers, type, value) ==
    {i \in 1..Len(numbers) : numbers[i].type = type /\ RatEq(numbers[i].value, value)}

\* C13: for a raw query that holds a number after a currency symbol or a
\* number before %, process_query reports that number exactly once, as a
\* currency entity (separators removed) respectively a percentage entity, and
\* reports no generic-number entity for it.
C13_CurrencyAndPercentageOnce ==
    Called =>
        LET dollars  == FindIter("dollar", fn_args.query, 1)
            percents == FindIter("percent", fn_args.query, 1)
            amount(i) == ParseFloat(SubSeq(fn_args.query, dollars[i].group, dollars[i].last))
            rate(i)   == ParseFloat(SubSeq(fn_args.query, percents[i].group,
                                           percents[i].group_last))
        IN  /\ \A i \in 1..Len(dollars) :
                  /\ EntriesOf(fn_ret.numbers, "currency", amount(i)) # {}
                  /\ EntriesOf(fn_ret.numbers, "number", amount(i)) = {}
            /\ \A i \in 1..Len(percents) :
                  /\ EntriesOf(fn_ret.numbers, "percentage", rate(i)) # {}
                  /\ EntriesOf(fn_ret.numbers, "number", rate(i)) = {}

\* C14: in every result of process_query the topics all have a score above 0
\* and no two entries of numbers have the same 'original' text.
C14_PositiveTopicsDistinctNumbers ==
    Called =>
        /\ \A i \in 1..Len(fn_ret.topics) : ~RatLeq(fn_ret.topics[i].score, Zero)
        /\ \A i, j \in 1..Len(fn_ret.numbers) :
              fn_ret.numbers[i].original = fn_ret.numbers[j].original => i = j

\* a query that holds the same number twice: one entry for the number
C14_Witness ==
    /\ Called
    /\ Len(FindIter("number", fn_ret.cleaned_query, 1)) = 2
    /\ Len(fn_ret.numbers) = 1

\* C15: the normalized query of every raw query is lower-cased, holds only
\* word characters, whitespace and '?', has no whitespace at either end and
\* no two whitespace characters in a row.
C15_CleanQueryNormalized ==
    Called =>
        LET c == fn_ret.cleaned_query
        IN  /\ c = StrLower(c)
            /\ \A i \in 1..Len(c) : IsWordChar(c[i]) \/ IsSpace(c[i]) \/ c[i] = "?"
            /\ c # <<>> => ~IsSpace(c[1]) /\ ~IsSpace(c[Len(c)])
            /\ \A i \in 1..Len(c) - 1 : ~(IsSpace(c[i]) /\ IsSpace(c[i + 1]))

\* the inputs of the complexity decision for the returned analysis
Words       == WordCount(fn_ret.cleaned_query)
Terms       == FinancialTermCount(fn_ret.cleaned_query)
Comparison  == HasComparison(fn_ret.cleaned_query)
MultiPart   == HasMultiPart(fn_ret.cleaned_query)

\* C16 as stated: complexity is simple exactly when there are at most 10
\* words, at most 1 financial term and not both a comparison word and a
\* multi-part connective; otherwise complex exactly when there are more than
\* 25 words or more than 3 terms or both indicators; otherwise moderate.  A
\* query of at most 10 words and 1 term with a comparison word and no
\* connective is simple.
C16_ComplexityTable ==
    Called =>
        LET simple  == Words <= 10 /\ Terms <= 1 /\ ~(Comparison /\ MultiPart)
            complex == Words > 25 \/ Terms > 3 \/ (Comparison /\ MultiPart)
        IN  /\ fn_ret.complexity = "simple" <=> simple
            /\ fn_ret.complexity = "complex" <=> (~simple /\ complex)
            /\ fn_ret.complexity = "moderate" <=> (~simple /\ ~complex)

\* C16 amended: complexity is simple exactly when there are at most 10
\* words, at most 1 financial term, no comparison word and no multi-part
\* connective; otherwise complex exactly when there are more than 25 words or
\* more than 3 terms or both a comparison word and a connective; otherwise
\* moderate.  A query of at most 10 words and 1 term with a comparison word
\* and no connective is moderate.
C16_ComplexityTableAmended ==
    Called =>
        LET simple  == Words <= 10 /\ Terms <= 1 /\ ~Comparison /\ ~MultiPart
            complex == Words > 25 \/ Terms > 3 \/ (Comparison /\ MultiPart)
        IN  /\ fn_ret.complexity = "simple" <=> simple
            /\ fn_ret.complexity = "complex" <=> (~simple /\ complex)
            /\ fn_ret.complexity = "moderate" <=> (~simple /\ ~complex)
            /\ (Words <= 10 /\ Terms <= 1 /\ Comparison /\ ~MultiPart)
                  => fn_ret.complexity = "moderate"

\* a short query with a comparison word and no connective was analyzed
C16_Witness ==
    /\ Called
    /\ Words <= 10 /\ Terms <= 1 /\ Comparison /\ ~MultiPart
    /\ fn_ret.complexity = "moderate"

(***************************************************************************)
(* Knowledge store.                                                        *)
(***************************************************************************)
Contents(docs) == [i \in 1..Len(docs) |-> docs[i].page_content]

\* the contents of the items of a batch that have a content
KeptContents(knowledge_items) ==
    LET kept == SelectSeq(knowledge_items,
                          LAMBDA item : "content" \in DOMAIN item
                                        /\ item.content # EmptyContent)
    IN  [i \in 1..Len(kept) |-> kept[i].content]

RECURSIVE SplitAll(_)
SplitAll(contents) ==
    IF contents = <<>> THEN <<>>
    ELSE SplitText(Head(contents)) \o SplitAll(Tail(contents))

\* C17: add_financial_knowledge returns without raising on every batch, the
\* empty one included; the store then holds, after what it held, the chunks
\* of exactly the items of the batch that have a content, in order: an item
\* with empty or missing content is not handed to the store and does not
\* keep the others from being stored.
C17_EmptyContentSkipped ==
    [][fn_pc' = "returned" =>
          LET kept == KeptContents(fn_args'.knowledge_items)
          IN  /\ ~fn_ret'.raised
              /\ Contents(vector_store'.docs)
                    = Contents(vector_store.docs) \o SplitAll(kept)
              /\ \A i \in 1..Len(vector_store'.docs) :
                    vector_store'.docs[i].page_content # EmptyContent
              /\ metadata'.document_count = metadata.document_count + Len(kept)
      ]_vars

\* a batch with an item without content between two items with content was
\* added: the store holds the two
C17_Witness ==
    /\ fn_pc = "returned"
    /\ \E i, j, k \in 1..Len(fn_args.knowledge_items) :
          /\ i < j /\ j < k
          /\ Content(fn_args.knowledge_items[j]) = EmptyContent
          /\ Content(fn_args.knowledge_items[i]) # EmptyContent
          /\ Content(fn_args.knowledge_items[k]) # EmptyContent
          /\ Contents(vector_store.docs) = <<fn_args.knowledge_items[i].content,
                                             fn_args.knowledge_items[k].content>>

\* C18: the knowledge store is changed by ingestion only: every step of
\* process_query, on the success path and on the failure path, and every
\* similarity_search in it, leaves the vector store, the metadata counters,
\* the source list and the saved state as they were; a step that changes one
\* of them is an ingestion, made while no request is in progress.
C18_StoreChangedByIngestionOnly ==
    [][/\ (pc # "idle" \/ pc' # "idle") => UNCHANGED <<vector_store, metadata, disk>>
       /\ (<<vector_store, metadata, disk>>' # <<vector_store, metadata, disk>>)
             => (pc = "idle" /\ UNCHANGED req_vars)
      ]_vars

\* a request over a store that holds chunks has ended on the failure path
C18_Witness ==
    /\ pc = "done"
    /\ trace.thrown_at # "none"
    /\ vector_store.initialized
    /\ metadata.chunk_count > 0

\* C19: after an ingest call has returned, a new KnowledgeBaseModule
\* constructed over the same data directory holds the chunks the store held
\* (and is initialized if it held any) and has the document_count,
\* chunk_count and sources the metadata had before the restart.
C19_PersistedStateSurvivesRestart ==
    [][(fn_pc = "returned" /\ fn_pc' = "restarted") =>
          /\ vector_store.docs # <<>> => vector_store'.initialized
          /\ vector_store'.docs = vector_store.docs
          /\ metadata'.document_count = metadata.document_count
          /\ metadata'.chunk_count = metadata.chunk_count
          /\ metadata'.sources = metadata.sources
      ]_vars

(***************************************************************************)
(* Concurrent requests.                                                    *)
(***************************************************************************)
\* C20: under every interleaving of ingest and query requests, each
\* similarity_search sees the store with no add_documents in progress (the
\* index holds exactly the chunks the metadata counts), at most one
\* add_documents is between its index write and its return, and when an
\* ingest handler returns the store is the one add_documents makes of the
\* store the handler started from.
C20_IngestionSerialized ==
    /\ \A h \in 1..Len(handlers) : \A i \in 1..Len(handlers[h].seen) :
          /\ handlers[h].seen[i].writers = 0
          /\ handlers[h].seen[i].chunks = handlers[h].seen[i].chunk_count
    /\ Cardinality(Writers) <= 1
    /\ \A h \in 1..Len(handlers) :
          (handlers[h].kind = "ingest" /\ handlers[h].pc = "respond") =>
              LET after == AddFinancialKnowledge(handlers[h].start,
                                                 handlers[h].knowledge_items)
              IN  /\ vector_store = after.vector_store
                  /\ metadata = after.metadata

\* an add_documents has written the index and not yet the metadata while a
\* query request and another ingest request wait
C20_Witness ==
    \E h, q, g \in 1..Len(handlers) :
        /\ handlers[h].kind = "ingest" /\ handlers[h].pc = "metadata"
        /\ handlers[q].kind = "query"  /\ handlers[q].pc = "pending"
        /\ handlers[g].kind = "ingest" /\ handlers[g].pc = "pending"

(***************************************************************************)
(* process_query under fair scheduling.  A step of the program is taken    *)
(* when it can be.  The index and the generation service answer a call,    *)
(* throw, or stay silent; process_query, similarity_search and             *)
(* generate_response take no timeout argument and start no timer, so a     *)
(* call that gets no answer stays where it is.                             *)
(***************************************************************************)
\* vectorstore.similarity_search has been called and the index (or the
\* embedding service behind it) never answers
SearchSilent ==
    /\ pc = "retrieve"
    /\ qi <= Len(search_queries)
    /\ vector_store.initialized
    /\ pc' = "waiting for similarity_search"
    /\ UNCHANGED <<query, chat_history, num_results, processed_query, search_queries,
                   qi, all_documents, unique_documents, result, trace,
                   kb_vars, fn_vars, app_vars>>

\* response_chain.run has been called and the generation service never
\* answers
GenerationSilent ==
    /\ pc = "synthesize"
    /\ pc' = "waiting for response_chain.run"
    /\ UNCHANGED <<query, chat_history, num_results, processed_query, search_queries,
                   qi, all_documents, unique_documents, result, trace,
                   kb_vars, fn_vars, app_vars>>

LiveNext ==
    \/ Ingest(Batches[2])
    \/ \E q \in 1..Len(Queries), h \in 1..Len(ChatHistories) :
           StartQuery(Queries[q], ChatHistories[h], 1)
    \/ Analyze
    \/ Expand
    \/ Retrieve
    \/ SearchSilent
    \/ Deduplicate
    \/ Synthesize
    \/ GenerationSilent
    \/ StepThrows
    \/ Return

\* the steps from the analysis to the return are taken when they can be
ProgramSteps ==
    /\ WF_vars(Expand) /\ WF_vars(Retrieve) /\ WF_vars(Deduplicate)
    /\ WF_vars(Synthesize)

SpecLive == Init /\ [][LiveNext]_vars /\ ProgramSteps

\* C21: a call of process_query that has analyzed its query eventually
\* returns: the knowledge-store calls and the generation call are bounded by
\* a timeout, so a call that waits at one of them still reaches its return
C21_ProcessQueryEventuallyReturns == (pc = "expand") ~> (pc = "done")

\* C22: the input of the generation capability contains the recent
\* conversation: the prompt a call has passed differs from the prompt of the
\* same call (same query, same passages, same behaviour of the capability)
\* made with any other chat history
C22_PromptCarriesChatHistory ==
    (pc = "done" /\ trace.gen.called) =>
        \A h \in 1..Len(ChatHistories) :
            ChatHistories[h] # chat_history =>
                GenerateResponse(query, trace.gen.passages, ChatHistories[h],
                                 Llm(trace.gen.llm)).prompt # trace.gen.prompt

(***************************************************************************)
(* ContentIngestionModule (backend/modules/content_ingestion.py) and       *)
(* RAGSystem.ingest_content.  A content source is a string (a path or a    *)
(* URL, with what the file or the page holds) or a list of items.          *)
(***************************************************************************)
MaxSources == 2

\* items with the alternative field names
ItemText == [name |-> "X", text |-> 2, note |-> "n"]
ItemName == [name |-> "Y"]

\* what json.load gives for the file: a list, an object with "items", or
\* a single object
JsonList(items)   == [shape |-> "list", items |-> items]
JsonItems(items)  == [shape |-> "items", items |-> items]
JsonSingle(item)  == [shape |-> "object", items |-> <<item>>]

\* a path or URL: whether it can be read, and what it holds
PathSource(path, readable, data) ==
    [t |-> "str", path |-> path, readable |-> readable, data |-> data]
\* a list of items handed over directly
ListOfItems(items) == [t |-> "list", items |-> items]

ContentSources == <<
    PathSource("a.json", TRUE, JsonList(<<ItemA, ItemText, ItemNoContent, ItemB>>)),
    PathSource("b.json", TRUE, JsonItems(<<ItemC, ItemName>>)),
    PathSource("c.json", TRUE, JsonSingle(ItemA2)),
    PathSource("d.json", TRUE, JsonList(<<ItemEmpty>>)),
    PathSource("gone", FALSE, JsonList(<< >>)),
    ListOfItems(<<ItemA, ItemEmpty, ItemB>>),
    ListOfItems(<<ItemText, ItemLong>>),
    ListOfItems(<<ItemNoContent>>),
    ListOfItems(<<ItemListSource>>),
    ListOfItems(<< >>) >>

SourceTypes == {"json", "url", "pdf", "csv", "direct", "xml"}

\* the functions of content_ingestion.py in which the name datetime is
\* bound: the module does not import it, _save_registry and
\* ingest_financial_knowledge import it locally
DatetimeBoundIn == {"_save_registry", "ingest_financial_knowledge"}

\* datetime.datetime.now() evaluated in the function fn throws NameError
NowThrows(fn) == fn \notin DatetimeBoundIn

\* item.get("title", ""), with the alternative field name
ItemTitle(item) ==
    LET title == IF "title" \in DOMAIN item THEN item.title ELSE ""
    IN  IF title = "" /\ "name" \in DOMAIN item THEN item.name ELSE title

\* item.get("content", ""), with the alternative field name
ItemContent(item) ==
    IF Content(item) = EmptyContent /\ "text" \in DOMAIN item THEN item.text
    ELSE Content(item)

StandardKeys == {"title", "content", "source", "source_type", "url"}

\* _standardize_content_item(item, source): the empty sequence for None,
\* else the standardized item alone
StandardizeContentItem(item, source) ==
    IF ItemContent(item) = EmptyContent THEN <<>>
    ELSE << [title       |-> ItemTitle(item),
             content     |-> ItemContent(item),
             source      |-> IF "source" \in DOMAIN item THEN item.source ELSE source,
             source_type |-> IF "source_type" \in DOMAIN item
                             THEN item.source_type ELSE "unknown",
             url         |-> IF "url" \in DOMAIN item THEN item.url ELSE "",
             metadata    |-> [k \in DOMAIN item \ StandardKeys |-> item[k]]] >>

\* the loop that standardizes the items and keeps those that are not None
RECURSIVE StandardizeAll(_, _)
StandardizeAll(items, source) ==
    IF items = <<>> THEN <<>>
    ELSE StandardizeContentItem(Head(items), source)
         \o StandardizeAll(Tail(items), source)

\* the entry a function appends to registry["sources"]
RegistryEntry(type, item_count) == [type |-> type, item_count |-> item_count]

\* ingest_from_json(json_file) over the registry reg: [value, registry].
\* The file is read and the raw and processed copies are written; the
\* registry update evaluates datetime.datetime.now(); any exception gives [].
IngestFromJson(reg, src, writable) ==
    LET processed_items == StandardizeAll(src.data.items, src.path)
    IN  IF ~src.readable \/ ~writable \/ NowThrows("ingest_from_json")
        THEN [value |-> <<>>, registry |-> reg]
        ELSE [value |-> processed_items,
              registry |-> Append(reg, RegistryEntry("json", Len(processed_items)))]

\* the item ingest_from_url and ingest_from_pdf return from their except
\* clause: no content
ErrorItem(src, source_type) ==
    [title |-> src.path, content |-> EmptyContent, source |-> src.path,
     source_type |-> source_type, url |-> src.path]

\* ingest_from_url(url): the processed item is built with
\* datetime.datetime.now()
IngestFromUrl(reg, src, writable) ==
    IF ~src.readable \/ ~writable \/ NowThrows("ingest_from_url")
    THEN [value |-> ErrorItem(src, "web"), registry |-> reg]
    ELSE [value |-> [title |-> src.path, content |-> 1, source |-> src.path,
                     source_type |-> "web", url |-> src.path],
          registry |-> Append(reg, RegistryEntry("url", 1))]

\* ingest_from_pdf(pdf_file)
IngestFromPdf(reg, src, writable) ==
    IF ~src.readable \/ ~writable \/ NowThrows("ingest_from_pdf")
    THEN [value |-> ErrorItem(src, "pdf"), registry |-> reg]
    ELSE [value |-> [title |-> src.path, content |-> 1, source |-> src.path,
                     source_type |-> "pdf", url |-> ""],
          registry |-> Append(reg, RegistryEntry("pdf", 1))]

\* ingest_from_csv(csv_file, "content", "title"): datetime.datetime.now() is
\* evaluated for the first row, and for the registry when there is no row
IngestFromCsv(reg, src, writable) ==
    LET rows == SelectSeq(src.data.items, LAMBDA row : "content" \in DOMAIN row)
    IN  IF ~src.readable \/ ~writable \/ NowThrows("ingest_from_csv")
        THEN [value |-> <<>>, registry |-> reg]
        ELSE [value |-> [i \in 1..Len(rows) |->
                            [title |-> ItemTitle(rows[i]), content |-> rows[i].content,
                             source |-> src.path, source_type |-> "csv"]],
              registry |-> Append(reg, RegistryEntry("csv", Len(rows)))]

\* ingest_financial_knowledge(knowledge_items): the registry entry is
\* appended before _save_registry writes the file
IngestFinancialKnowledge(reg, knowledge_items, writable) ==
    LET processed_items == StandardizeAll(knowledge_items, "direct_input")
    IN  IF NowThrows("ingest_financial_knowledge") THEN [value |-> <<>>, registry |-> reg]
        ELSE IF ~writable THEN [value |-> <<>>, registry |-> reg]
        ELSE [value |-> processed_items,
              registry |-> Append(reg, RegistryEntry("direct_input",
                                                     Len(processed_items)))]

\* the branch of ingest_content for the source type and the type of
\* content_source: [valid, content_items, registry]
ContentItems(reg, content_source, source_type, writable) ==
    LET from(r, items) == [valid |-> TRUE, content_items |-> items,
                           registry |-> r.registry]
    IN  IF source_type = "json" /\ content_source.t = "str"
        THEN LET r == IngestFromJson(reg, content_source, writable)
             IN  from(r, r.value)
        ELSE IF source_type = "url" /\ content_source.t = "str"
        THEN LET r == IngestFromUrl(reg, content_source, writable)
             IN  from(r, <<r.value>>)
        ELSE IF source_type = "pdf" /\ content_source.t = "str"
        THEN LET r == IngestFromPdf(reg, content_source, writable)
             IN  from(r, <<r.value>>)
        ELSE IF source_type = "csv" /\ content_source.t = "str"
        THEN LET r == IngestFromCsv(reg, content_source, writable)
             IN  from(r, r.value)
        ELSE IF source_type = "direct" /\ content_source.t = "list"
        THEN LET r == IngestFinancialKnowledge(reg, content_source.items, writable)
             IN  from(r, r.value)
        ELSE [valid |-> FALSE, content_items |-> <<>>, registry |-> reg]

\* ingest_content(content_source, source_type): [returned, content_items,
\* vector_store, metadata, saved, registry]
IngestContent(kb, reg, content_source, source_type, writable) ==
    LET c == ContentItems(reg, content_source, source_type, writable)
        added == AddFinancialKnowledge(kb, c.content_items)
    IN  IF c.valid /\ c.content_items # <<>>
        THEN [returned |-> TRUE, content_items |-> c.content_items,
              vector_store |-> added.vector_store, metadata |-> added.metadata,
              saved |-> added.saved, registry |-> c.registry]
        ELSE [returned |-> FALSE, content_items |-> c.content_items,
              vector_store |-> kb.vector_store, metadata |-> kb.metadata,
              saved |-> FALSE, registry |-> c.registry]

(***************************************************************************)
(* RAGSystem.ingest_content called directly, over a data directory that    *)
(* accepts writes or not.                                                  *)
(***************************************************************************)
IngestInit ==
    /\ KbInit
    /\ AppIdle
    /\ Idle
    /\ fn_pc = "ready"
    /\ fn_args = <<>>
    /\ fn_ret = <<>>

CallIngestContent(content_source, source_type, writable) ==
    LET before == [vector_store |-> vector_store, metadata |-> metadata,
                   registry |-> registry]
        r == IngestContent(before, registry, content_source, source_type, writable)
    IN  /\ fn_pc \in {"ready", "returned"}
        /\ Len(r.vector_store.docs) <= MaxChunks
        /\ Len(r.registry) <= MaxSources
        /\ vector_store' = r.vector_store
        /\ metadata' = r.metadata
        /\ disk' = Persist(disk, r, writable, writable)
        /\ registry' = r.registry
        /\ fn_pc' = "returned"
        /\ fn_args' = [content_source |-> content_source, source_type |-> source_type,
                       writable |-> writable, before |-> before]
        /\ fn_ret' = [returned |-> r.returned, content_items |-> r.content_items]
        /\ UNCHANGED <<req_vars, loop, handlers, rag_system>>

\* the caller drops the return value
ForgetIngest ==
    /\ fn_pc = "returned"
    /\ fn_pc' = "ready" /\ fn_args' = <<>> /\ fn_ret' = <<>>
    /\ UNCHANGED <<kb_vars, req_vars, app_vars>>

IngestNext ==
    \/ \E i \in 1..Len(ContentSources) : \E source_type \in SourceTypes :
          \E writable \in BOOLEAN :
              CallIngestContent(ContentSources[i], source_type, writable)
    \/ ForgetIngest

SpecIngest == IngestInit /\ [][IngestNext]_vars

\* the chunks a call has added to the store
StoredBy == Len(vector_store.docs) - Len(fn_args.before.vector_store.docs)

\* C23: ingest_content returns True exactly when the call stored at least
\* one passage in the knowledge base, and False otherwise
C23_TrueIffStored ==
    fn_pc = "returned" => (fn_ret.returned <=> StoredBy >= 1)

\* the analysis of each query a caller may pass, computed once
AnalyzedQueries ==
    [i \in 1..Len(Queries) |->
        IF Queries[i].t = "text" THEN AnalyzeQuery(Queries[i].v) ELSE NoQuery]

Diagnostics == {"query", "processed_query", "num_documents_retrieved"}

\* the result d carries the three diagnostics of the call in progress
CarriesDiagnostics(d) ==
    /\ Diagnostics \subseteq DOMAIN d
    /\ d["query"] = query
    /\ \E i \in 1..Len(Queries) :
          Queries[i] = query /\ d["processed_query"] = JDict(AnalyzedQueries[i])
    /\ d["num_documents_retrieved"] = JNum(<<Len(trace.deduplicated), 1>>)
    /\ Len(trace.deduplicated) >= Len(trace.gen.passages)

\* C24: every result of process_query carries the three diagnostics: the
\* echoed query, the analyzed query, and the number of deduplicated passages
\* before the truncation to the result budget
C24_DiagnosticsOnEveryResult ==
    (pc = "done" /\ result.outcome = "returned") => CarriesDiagnostics(result.value)

\* C24 as the code has it: a result that is not the fallback of the except
\* clause carries the three diagnostics; the fallback carries the echoed
\* query and the error detail, and neither the analysis nor the count
C24_DiagnosticsUnlessFallback ==
    (pc = "done" /\ result.outcome = "returned") =>
        IF trace.thrown_at = "none"
        THEN CarriesDiagnostics(result.value)
        ELSE /\ DOMAIN result.value \cap (Diagnostics \cup {"error"}) = {"query", "error"}
             /\ result.value["query"] = query

\* a call has returned a result made from fewer passages than it retrieved
C24_Witness ==
    /\ pc = "done" /\ result.outcome = "returned" /\ trace.thrown_at = "none"
    /\ Len(trace.deduplicated) > Len(trace.gen.passages)
    /\ Len(trace.gen.passages) >= 1

\* the places <<i, j>> of a text that hold a JSON object, from { to }
ParseableObjects(text) ==
    {m \in (1..Len(text)) \X (1..Len(text)) :
        /\ m[1] < m[2] /\ text[m[1]].tok = "LB" /\ text[m[2]].tok = "RB"
        /\ JsonIsObject(SubSeq(text, m[1], m[2]))}

\* C25: whenever the generation output contains a parseable JSON object,
\* generate_response returns the structured result: that object with each
\* missing required field filled by its default and every present field
\* unchanged; it takes neither the degraded nor the apologetic path
C25_ParseableObjectIsStructured ==
    (pc = "done" /\ trace.gen.called /\ trace.gen.llm > 0
        /\ ParseableObjects(LlmOutputs[trace.gen.llm]) # {}) =>
        /\ trace.gen.path = "structured"
        /\ \E m \in ParseableObjects(LlmOutputs[trace.gen.llm]) :
              trace.gen.value =
                  FillRequired(JsonObject(SubSeq(LlmOutputs[trace.gen.llm], m[1], m[2])))

\* C26: on the degraded path the answer is the raw generation output with
\* every fenced-code marker removed: the returned answer holds no
\* triple-backtick marker
C26_DegradedAnswerHasNoFence ==
    (pc = "done" /\ trace.gen.called /\ trace.gen.path = "degraded") =>
        LET raw == LlmOutputs[trace.gen.llm]
            answer == result.value["answer"]
        IN  /\ answer.t = "text"
            /\ \A i \in 1..Len(answer.v) : ~StartsWithFence(answer.v[i])
            /\ answer.v = SelectSeq(raw, LAMBDA tk : ~StartsWithFence(tk))

\* the items of a file that have a non-empty content or text
WithContent(items) ==
    SelectSeq(items, LAMBDA item :
        \/ ("content" \in DOMAIN item /\ item.content # EmptyContent)
        \/ ("text" \in DOMAIN item /\ item.text # EmptyContent))

\* the content or the text of such an item
ContentOrText(item) ==
    IF "content" \in DOMAIN item /\ item.content # EmptyContent
    THEN item.content ELSE item.text

\* C27: for a readable JSON file ingest_from_json returns one standardized
\* item per input item that has content or text, in input order, and appends
\* exactly one source entry to the content registry
C27_JsonItemsStandardized ==
    (/\ fn_pc = "returned"
     /\ fn_args.source_type = "json" /\ fn_args.content_source.t = "str"
     /\ fn_args.content_source.readable /\ fn_args.writable) =>
        LET kept == WithContent(fn_args.content_source.data.items)
            out  == fn_ret.content_items
        IN  /\ Len(out) = Len(kept)
            /\ \A i \in 1..Len(kept) : out[i].content = ContentOrText(kept[i])
            /\ Len(registry) = Len(fn_args.before.registry) + 1

(***************************************************************************)
(* app.py: the global rag_system, get_rag_system and the endpoints         *)
(* /api/query and /api/ingest.  A handler runs from its start to its       *)
(* response without yielding; handlers keeps, per request served, the      *)
(* locals of its handler and the response.                                 *)
(***************************************************************************)
\* the RAGSystem constructions attempted so far
Constructions == Cardinality({h \in 1..Len(handlers) : handlers[h].constructed})

\* data/financial_knowledge.json
SampleKnowledge == PathSource("data/financial_knowledge.json", TRUE,
                              JsonList(<<ItemA, ItemB>>))

\* get_rag_system that constructs a RAGSystem at every call
GetRagSystemFresh(rs, construct_ok, sample_exists) ==
    IF ~construct_ok
    THEN [rag_system |-> rs, returned |-> 0, constructed |-> TRUE, sample |-> FALSE]
    ELSE [rag_system |-> Constructions + 1, returned |-> Constructions + 1,
          constructed |-> TRUE, sample |-> sample_exists]

\* get_rag_system(): the global afterwards, the value returned, whether a
\* RAGSystem was constructed and whether the sample knowledge was ingested.
\* The constructor throws or not; the global is assigned when it has
\* returned.
GetRagSystem(rs, construct_ok, sample_exists) ==
    IF rs # 0
    THEN [rag_system |-> rs, returned |-> rs, constructed |-> FALSE, sample |-> FALSE]
    ELSE IF ~construct_ok
    THEN [rag_system |-> 0, returned |-> 0, constructed |-> TRUE, sample |-> FALSE]
    ELSE [rag_system |-> Constructions + 1, returned |-> Constructions + 1,
          constructed |-> TRUE, sample |-> sample_exists]

\* the response of the query endpoint when get_rag_system() is None
MaintenanceResponse ==
    [answer              |-> JStr("I'm currently in maintenance mode and can't access my knowledge base. Please try again later or ask a different question."),
     citations           |-> JList(<<>>),
     confidence          |-> JNum(Zero),
     follow_up_questions |-> JList(<<"Can you try asking a simpler question?",
                                     "Would you like to know when the system will be back online?",
                                     "Is there a specific financial topic you're interested in?">>)]

\* results process_query may give the endpoint for "Budget?"
QueryResults ==
    {ProcessQueryFallback(Queries[2], "Exception"),
     WithMetadata(GenerationFallback, Queries[2], AnalyzedQueries[2], <<>>),
     WithMetadata(ParsedOutputs[3].value, Queries[2], AnalyzedQueries[2], <<>>)}

\* the dict the query endpoint returns for a result of process_query
QueryResponse(res) ==
    [answer              |-> res["answer"],
     citations           |-> IF "citations" \in DOMAIN res THEN res["citations"]
                             ELSE JList(<<>>),
     confidence          |-> IF "confidence" \in DOMAIN res THEN res["confidence"]
                             ELSE JNum(DefaultConfidence),
     follow_up_questions |-> IF "follow_up_questions" \in DOMAIN res
                             THEN res["follow_up_questions"] ELSE JList(<<>>)]

\* a handler returns a body, or raises HTTPException(status_code)
Returns(body) == [raised |-> FALSE, status |-> 200, body |-> body]
HttpException(status_code) == [raised |-> TRUE, status |-> status_code, body |-> EmptyDict]
NoResponse == [raised |-> FALSE, status |-> 0, body |-> EmptyDict]
\* the arguments of a request that has none, or whose handler has returned
NoSource == PathSource("", FALSE, JsonList(<< >>))

\* the clause "except Exception as e: raise HTTPException(status_code=500,
\* ...)" that ends both handlers: HTTPException is an Exception
ExceptException(outcome) == IF outcome.raised THEN HttpException(500) ELSE outcome

\* the body of the try block of the ingest endpoint
IngestTry(system, success) ==
    IF system = 0 THEN HttpException(503)
    ELSE IF success THEN Returns([status |-> "success",
                                  message |-> "Content ingested successfully"])
    ELSE HttpException(400)

\* the body of the try block of the query endpoint
QueryTry(system, res) ==
    IF system = 0 THEN Returns(MaintenanceResponse) ELSE Returns(QueryResponse(res))

AppInit ==
    /\ KbInit
    /\ AppIdle
    /\ Idle
    /\ FnIdle

\* a request arrives and the event loop, running no handler, starts its
\* handler; content_source is a string
Request(kind, content_source, source_type) ==
    /\ loop = 0
    /\ Len(handlers) < MaxRequests
    /\ content_source.t = "str"
    /\ loop' = Len(handlers) + 1
    /\ handlers' = Append(handlers,
          [kind |-> kind, pc |-> "get_rag_system", content_source |-> content_source,
           source_type |-> source_type, constructed |-> FALSE, sample |-> FALSE,
           system |-> 0, success |-> FALSE, response |-> NoResponse])
    /\ UNCHANGED <<kb_vars, req_vars, fn_vars, obj_vars>>

\* system = get_rag_system(), with the ingestion of the sample knowledge
\* when the system has just been constructed and the file exists
CallGetRagSystem(construct_ok, sample_exists, writable) ==
    LET g == GetRagSystem(rag_system, construct_ok, sample_exists)
        s == IngestContent([vector_store |-> vector_store, metadata |-> metadata],
                           registry, SampleKnowledge, "json", writable)
    IN  /\ loop # 0
        /\ handlers[loop].pc = "get_rag_system"
        /\ rag_system' = g.rag_system
        /\ IF g.sample
           THEN /\ vector_store' = s.vector_store
                /\ metadata' = s.metadata
                /\ disk' = Persist(disk, s, writable, writable)
                /\ registry' = s.registry
           ELSE UNCHANGED <<kb_vars, registry>>
        /\ handlers' = [handlers EXCEPT ![loop].pc = "try",
                                        ![loop].constructed = g.constructed,
                                        ![loop].sample = g.sample,
                                        ![loop].system = g.returned]
        /\ UNCHANGED <<loop, req_vars, fn_vars>>

\* POST /api/query after get_rag_system: the maintenance response, or the
\* response made of the result of process_query
QueryEndpoint(res) ==
    /\ loop # 0
    /\ handlers[loop].pc = "try" /\ handlers[loop].kind = "query"
    /\ handlers' = [handlers EXCEPT
          ![loop].pc = "done",
          ![loop].response = ExceptException(QueryTry(handlers[loop].system, res))]
    /\ loop' = 0
    /\ UNCHANGED <<kb_vars, req_vars, fn_vars, obj_vars>>

\* POST /api/ingest after get_rag_system, without a system
IngestUnavailable ==
    /\ loop # 0
    /\ handlers[loop].pc = "try" /\ handlers[loop].kind = "ingest"
    /\ handlers[loop].system = 0
    /\ handlers' = [handlers EXCEPT
          ![loop].pc = "done",
          ![loop].content_source = NoSource, ![loop].source_type = "",
          ![loop].response = ExceptException(IngestTry(0, FALSE))]
    /\ loop' = 0
    /\ UNCHANGED <<kb_vars, req_vars, fn_vars, obj_vars>>

\* POST /api/ingest after get_rag_system: success = system.ingest_content(
\* content_source, source_type), and the response
IngestEndpoint(writable) ==
    LET r == IngestContent([vector_store |-> vector_store, metadata |-> metadata],
                           registry, handlers[loop].content_source,
                           handlers[loop].source_type, writable)
    IN  /\ loop # 0
        /\ handlers[loop].pc = "try" /\ handlers[loop].kind = "ingest"
        /\ handlers[loop].system # 0
        /\ vector_store' = r.vector_store
        /\ metadata' = r.metadata
        /\ disk' = Persist(disk, r, writable, writable)
        /\ registry' = r.registry
        /\ handlers' = [handlers EXCEPT
              ![loop].pc = "done",
              ![loop].content_source = NoSource, ![loop].source_type = "",
              ![loop].success = r.returned,
              ![loop].response = ExceptException(IngestTry(handlers[loop].system,
                                                           r.returned))]
        /\ loop' = 0
        /\ UNCHANGED <<rag_system, req_vars, fn_vars>>

AppNext ==
    \/ Request("query", NoSource, "")
    \/ \E i \in 1..Len(ContentSources) : \E source_type \in SourceTypes :
          Request("ingest", ContentSources[i], source_type)
    \/ \E construct_ok, sample_exists, writable \in BOOLEAN :
          CallGetRagSystem(construct_ok, sample_exists, writable)
    \/ \E res \in QueryResults : QueryEndpoint(res)
    \/ IngestUnavailable
    \/ \E writable \in BOOLEAN : IngestEndpoint(writable)

SpecApp == AppInit /\ [][AppNext]_vars

\* C28: the ingestion endpoint responds 503 when the RAG system is
\* unavailable, 400 when ingest_content returns False, and with status
\* "success" when it returns True
C28_IngestRejectionsDistinct ==
    \A h \in 1..Len(handlers) :
        (handlers[h].kind = "ingest" /\ handlers[h].pc = "done") =>
            LET response == handlers[h].response
            IN  IF handlers[h].system = 0 THEN response.status = 503
                ELSE IF ~handlers[h].success THEN response.status = 400
                ELSE /\ response.status = 200
                     /\ response.body.status = "success"

\* the requests whose get_rag_system call constructed the system it returned
Constructed(hs) == {h \in 1..Len(hs) : hs[h].constructed /\ hs[h].system # 0}

\* the request whose get_rag_system call returns in this step
GetRagSystemReturns ==
    /\ loop # 0 /\ loop' = loop
    /\ handlers[loop].pc = "get_rag_system" /\ handlers'[loop].pc = "try"

\* the query request whose handler ends in this step
QueryHandlerEnds ==
    /\ loop # 0
    /\ handlers[loop].kind = "query"
    /\ handlers[loop].pc = "try" /\ handlers'[loop].pc = "done"

\* C29: the shared pipeline instance is constructed at most once: once the
\* global holds a system, every later get_rag_system call returns that
\* instance without constructing a RAGSystem or ingesting the sample
\* knowledge again; a call whose construction fails returns None, and the
\* query endpoint then answers with the maintenance message (confidence 0.0,
\* no citations) instead of raising
C29_SystemConstructedOnce ==
    [][/\ GetRagSystemReturns =>
             LET call == handlers'[loop]
             IN  /\ Cardinality(Constructed(handlers')) <= 1
                 /\ rag_system # 0 =>
                       /\ rag_system' = rag_system
                       /\ call.system = rag_system
                       /\ ~call.constructed /\ ~call.sample
                       /\ UNCHANGED <<kb_vars, registry>>
                 /\ call.system = 0 => rag_system' = 0
       /\ (QueryHandlerEnds /\ handlers[loop].system = 0) =>
             LET response == handlers'[loop].response
             IN  /\ ~response.raised
                 /\ response.body = MaintenanceResponse
                 /\ response.body.confidence = JNum(Zero)
                 /\ response.body.citations = JList(<<>>)]_vars

\* a query answered in maintenance mode, then a request that constructed
\* the system, then a request served by the same system
C29_Witness ==
    /\ Len(handlers) = 3
    /\ handlers[1].kind = "query" /\ handlers[1].system = 0
    /\ handlers[1].response.body = MaintenanceResponse
    /\ handlers[2].constructed /\ handlers[2].system # 0 /\ handlers[2].sample
    /\ handlers[3].pc = "done"
    /\ ~handlers[3].constructed /\ handlers[3].system = handlers[2].system
    /\ rag_system = handlers[2].system

\* C30: in every reachable state, also after failed saves and a restart, a
\* knowledge base whose metadata reports chunk_count > 0 has a vector store,
\* and its source list holds no source twice
C30_MetadataMatchesIndex ==
    /\ metadata.chunk_count > 0 => vector_store.initialized
    /\ \A i, j \in 1..Len(metadata.sources) :
          metadata.sources[i] = metadata.sources[j] => i = j

====
